---- MODULE Spec2Model ----
(***************************************************************************)
(* The file-backed record store of MiniTalk (FileDataManager) and the      *)
(* message batcher (MessageProcessor), as a state machine.                 *)
(*                                                                         *)
(* Every asynchronous call of the program is a task.  The code between two *)
(* awaits runs without interruption on the event loop, so it is one step;  *)
(* every await is a point where other tasks may run.  readFile and         *)
(* writeFile are shared by all operations: a task that calls one of them   *)
(* keeps in `ret` the place it continues at.                               *)
(*                                                                         *)
(* Arrays are JavaScript objects: readFile returns the very array the      *)
(* cache holds, and a push on it changes the cache entry too.  `heap` maps *)
(* object identities to array contents.                                    *)
(***************************************************************************)
EXTENDS Integers, Naturals, Sequences, FiniteSets, TLC

\* ------------------------------------------------------------- bounds
\* Tasks (calls of an operation of the store) in one behaviour.
MaxTasks == 3
\* Date.now() runs from 1 to MaxTime, in seconds.
MaxTime == 4
\* I/O calls (fs.readFile, fs.writeFile, fs.rename) that may fail in one behaviour.
MaxFaults == 1
\* this.maxConcurrentReads (5 in the program), scaled down.
maxConcurrentReads == 2
\* this.maxMessagesPerFile (100000 in the program), scaled down.
maxMessagesPerFile == 2
\* Message files messages_1.json .. messages_<MaxIndex>.json.
MaxIndex == 3
\* queueMessage calls in one behaviour.
MaxMessages == 5
\* this.batchSize (100000 in the program), scaled down.
batchSize == 2
\* this.cacheTimeout (3000 ms in the program), in seconds and scaled down.
cacheTimeout == 2
\* The users createUsersBatch hashes in parallel (batchSize, 50 in the program),
\* scaled down.
hashBatchSize == 2
\* The users of one createUsersBatch call.
MaxUsers == 3

VARIABLES
  now,              \* Date.now()
  disk,             \* the storage directory: file -> content
  cache,            \* this.cache: file -> object (0: no entry)
  lastCacheUpdate,  \* this.lastCacheUpdate: file -> time (0: no entry)
  activeReads,      \* this.activeReads: file -> count
  heap,             \* object -> array content
  fileQueues,       \* this.fileQueues: file -> last task of the chain (0: resolved)
  tasks,            \* the calls made so far, in call order
  faults,           \* I/O calls that have failed
  crashed,          \* the process has stopped
  old,              \* what the files held when the process started
  written,          \* file -> what the last writeFile that resolved wrote, and when
  currentMessageFileIndex,  \* this.currentMessageFileIndex
  messageProcessor  \* the MessageProcessor, its calls in flight, what it was given
                    \* and what it has emitted

vars == <<now, disk, cache, lastCacheUpdate, activeReads, heap, fileQueues,
          tasks, faults, crashed, old, written, currentMessageFileIndex,
          messageProcessor>>

\* ------------------------------------------------------------- files
usersFile == <<"users.json", 0>>
chatRoomsFile == <<"chatrooms.json", 0>>
NoFile == <<"", 0>>
\* `${this.messageFilePrefix}${index}.json`
MessageFile(index) == <<"messages_", index>>
MessageFiles == {MessageFile(i) : i \in 1..MaxIndex}
Files == {usersFile, chatRoomsFile} \cup MessageFiles
\* Calls in one behaviour: those made from outside, and the per-file operations a
\* purge queues.
TaskIds == 1..(MaxTasks + MaxIndex)
\* The temporary files of writeFile, one per call.
TmpFiles == {<<"tmp", t>> : t \in TaskIds}

\* A record of a collection: `id` stands for what makes the record unique (the
\* generated id and the payload), `key` for the username or the roomId.
Rec(id, key) == [id |-> id, key |-> key]
Names == {"a", "b"}

\* A file's content: absent, partially written (not parseable), or a complete array.
Absent == [st |-> "absent", recs |-> <<>>]
Partial == [st |-> "partial", recs |-> <<>>]
Content(recs) == [st |-> "ok", recs |-> recs]

\* No writeFile on the file has resolved since the last one that was started.
NoWrite == [at |-> 0, recs |-> <<>>]

\* ------------------------------------------------------------- heap
NObj == Cardinality(Files) + Cardinality(TaskIds) + 1
Obj == 1..NObj

Live(t) == t.st \in {"wait", "run"}
Refs(c, ts) ==
  {c[f] : f \in DOMAIN c} \cup {ts[i].data : i \in {j \in DOMAIN ts : Live(ts[j])}}
\* A fresh object: the least identity nothing refers to.
NewObj(c, ts) == CHOOSE o \in Obj : o \notin Refs(c, ts) /\ \A p \in Obj : p < o => p \in Refs(c, ts)
\* Objects nothing refers to are collected.
Gc(h, c, ts) == [o \in Obj |-> IF o \in Refs(c, ts) THEN h[o] ELSE <<>>]

\* ------------------------------------------------------------- tasks
NewTask(kind, key, pred, arg) ==
  [kind |-> kind, key |-> key, pred |-> pred, arg |-> arg,
   st |-> "wait", err |-> 0, pc |-> "start", ret |-> "start",
   file |-> NoFile, rnow |-> 0, rcount |-> 0, got |-> Absent,
   data |-> 0, out |-> <<>>, todo |-> <<>>, child |-> 0, acc |-> <<>>, msg |-> "",
   isLoadTest |-> FALSE, existingUsernames |-> {}]

Set(ts, t, rec) == [ts EXCEPT ![t] = rec]

\* A settled call: only its outcome is kept.  `err` is the call that threw the error
\* the promise is rejected with, and that call keeps the message of the error.
Settled(r, st, err, out) ==
  [NewTask(r.kind, r.key, r.pred, r.arg) EXCEPT !.st = st, !.err = err, !.pc = "done",
                                               !.ret = "done", !.out = out,
                                               !.isLoadTest = r.isLoadTest]
\* The call of task t resolves with the array `out` / rejects with its own error.
Resolve(r, out) == Settled(r, "ok", 0, out)
Reject(r, t) == Settled(r, "err", t, <<>>)
\* A callee (readFile, writeFile) returns to its caller; a caller that returns the
\* result as it is resolves with it.
Return(r, o, h) ==
  IF r.ret = "resolve" THEN Resolve(r, IF o = 0 THEN <<>> ELSE h[o])
  ELSE [r EXCEPT !.pc = r.ret, !.data = o, !.got = Absent, !.rnow = 0, !.rcount = 0,
                 !.out = <<>>]

\* --------------------------------------------------------- readFile
\* readFile up to its first await: the cache check, the throttle, the start of the
\* physical read.  Yields <<task, activeReads>>.
\* A cache check that does not look at the age of the entry.
CacheFreshAlways(f) ==
  /\ lastCacheUpdate[f] # 0
  /\ cache[f] # 0

CacheFresh(f) ==
  /\ lastCacheUpdate[f] # 0
  /\ now - lastCacheUpdate[f] < cacheTimeout
  /\ cache[f] # 0

ReadFileCall(r, f, ret) ==
  LET activeCount == activeReads[f] IN
  IF CacheFresh(f)
    THEN <<Return([r EXCEPT !.ret = ret, !.file = f], cache[f], heap), activeReads>>
  ELSE IF activeCount >= maxConcurrentReads /\ cache[f] # 0
    THEN <<Return([r EXCEPT !.ret = ret, !.file = f], cache[f], heap), activeReads>>
  ELSE IF activeCount >= maxConcurrentReads
    THEN <<[r EXCEPT !.pc = "rf_backoff", !.ret = ret, !.file = f, !.rnow = now,
                     !.rcount = activeCount], activeReads>>
  ELSE <<[r EXCEPT !.pc = "rf_reading", !.ret = ret, !.file = f, !.rnow = now,
                   !.rcount = activeCount],
         [activeReads EXCEPT ![f] = activeCount + 1]>>

\* The finally block of readFile.
ReadFileFinally(ar, f) ==
  LET currentCount == IF ar[f] = 0 THEN 1 ELSE ar[f] IN
  [ar EXCEPT ![f] = IF currentCount - 1 > 0 THEN currentCount - 1 ELSE 0]

\* The 100 ms backoff of a throttled read is over: the physical read starts.
RfBackoff(t) ==
  LET r == tasks[t] IN
  /\ ~crashed /\ r.st = "run" /\ r.pc = "rf_backoff"
  /\ activeReads' = [activeReads EXCEPT ![r.file] = r.rcount + 1]
  /\ tasks' = Set(tasks, t, [r EXCEPT !.pc = "rf_reading"])
  /\ UNCHANGED <<now, disk, cache, lastCacheUpdate, heap, fileQueues, faults, crashed, old, written, currentMessageFileIndex, messageProcessor>>

\* fs.readFile reads the file as it is on disk at some moment of the call.
RfSample(t) ==
  LET r == tasks[t] IN
  /\ ~crashed /\ r.st = "run" /\ r.pc = "rf_reading"
  /\ tasks' = Set(tasks, t, [r EXCEPT !.pc = "rf_sampled", !.got = disk[r.file]])
  /\ UNCHANGED <<now, disk, cache, lastCacheUpdate, activeReads, heap, fileQueues,
                 faults, crashed, old, written, currentMessageFileIndex, messageProcessor>>

\* The physical read and JSON.parse succeeded: the cache entry is replaced, with the
\* time taken when readFile was called.
RfComplete(t) ==
  LET r == tasks[t]
      o == NewObj(cache, tasks)
      c2 == [cache EXCEPT ![r.file] = o]
      h2 == [heap EXCEPT ![o] = r.got.recs]
      ts2 == Set(tasks, t, Return(r, o, h2))
  IN
  /\ ~crashed /\ r.st = "run" /\ r.pc = "rf_sampled" /\ r.got.st = "ok"
  /\ cache' = c2
  /\ lastCacheUpdate' = [lastCacheUpdate EXCEPT ![r.file] = r.rnow]
  /\ tasks' = ts2
  /\ heap' = Gc(h2, c2, ts2)
  /\ activeReads' = ReadFileFinally(activeReads, r.file)
  /\ UNCHANGED <<now, disk, fileQueues, faults, crashed, old, written, currentMessageFileIndex, messageProcessor>>

\* A catch block that lets the error of the physical read reach the caller.
ReadFileCatchRethrow(t) ==
  LET r == tasks[t]
      ts2 == Set(tasks, t, Reject(r, t))
  IN
  /\ ~crashed /\ r.st = "run" /\ r.pc = "rf_sampled"
  /\ tasks' = ts2
  /\ heap' = Gc(heap, cache, ts2)
  /\ activeReads' = ReadFileFinally(activeReads, r.file)
  /\ UNCHANGED <<now, disk, cache, lastCacheUpdate, fileQueues, crashed, old, written,
                 currentMessageFileIndex, messageProcessor>>

\* The catch block of readFile: the cached array if there is one, otherwise a new
\* empty array.
ReadFileCatch(t) ==
  LET r == tasks[t]
      o == IF cache[r.file] # 0 THEN cache[r.file] ELSE NewObj(cache, tasks)
      h2 == IF cache[r.file] # 0 THEN heap ELSE [heap EXCEPT ![o] = <<>>]
      ts2 == Set(tasks, t, Return(r, o, h2))
  IN
  /\ ~crashed /\ r.st = "run" /\ r.pc = "rf_sampled"
  /\ tasks' = ts2
  /\ heap' = Gc(h2, cache, ts2)
  /\ activeReads' = ReadFileFinally(activeReads, r.file)
  /\ UNCHANGED <<now, disk, cache, lastCacheUpdate, fileQueues, crashed, old, written,
                 currentMessageFileIndex, messageProcessor>>

\* The file is absent or not parseable: fs.readFile or JSON.parse throws.
RfMissing(t) ==
  /\ tasks[t].got.st # "ok"
  /\ ReadFileCatch(t)
  /\ UNCHANGED faults

\* An I/O error on a file that is there.
RfFail(t) ==
  /\ tasks[t].got.st = "ok"
  /\ faults < MaxFaults /\ faults' = faults + 1
  /\ ReadFileCatch(t)

\* -------------------------------------------------------- writeFile
\* A writeFile that writes the target in place.
tempFileInPlace(t, f) == f

\* The file writeFile writes first: `${filePath}.tmp.${Date.now()}.${random}`.
tempFile(t, f) == <<"tmp", t>>

\* writeFile up to its first await: JSON.stringify(data) is taken now.
WriteFileCall(r, f, o, h, ret) ==
  [r EXCEPT !.pc = "wf_open", !.ret = ret, !.file = f, !.data = o, !.out = h[o]]

\* fs.writeFile(tempFile, ...) has created the file and written a part of it.
WfOpen(t) ==
  LET r == tasks[t] IN
  /\ ~crashed /\ r.st = "run" /\ r.pc = "wf_open"
  /\ disk' = [disk EXCEPT ![tempFile(t, r.file)] = Partial]
  /\ tasks' = Set(tasks, t, [r EXCEPT !.pc = "wf_write"])
  /\ UNCHANGED <<now, cache, lastCacheUpdate, activeReads, heap, fileQueues, faults, crashed, old, written, currentMessageFileIndex, messageProcessor>>

\* fs.writeFile(tempFile, ...) has written all of it.
WfWrite(t) ==
  LET r == tasks[t] IN
  /\ ~crashed /\ r.st = "run" /\ r.pc = "wf_write"
  /\ disk' = [disk EXCEPT ![tempFile(t, r.file)] = Content(r.out)]
  /\ tasks' = Set(tasks, t, [r EXCEPT !.pc = "wf_rename"])
  /\ UNCHANGED <<now, cache, lastCacheUpdate, activeReads, heap, fileQueues, faults, crashed, old, written, currentMessageFileIndex, messageProcessor>>

\* fs.rename(tempFile, filePath): the target is replaced in one step.
Rename(d, from, to) ==
  IF from = to THEN d ELSE [d EXCEPT ![to] = d[from], ![from] = Absent]

WfRename(t) ==
  LET r == tasks[t] IN
  /\ ~crashed /\ r.st = "run" /\ r.pc = "wf_rename"
  /\ disk' = Rename(disk, tempFile(t, r.file), r.file)
  /\ tasks' = Set(tasks, t, [r EXCEPT !.pc = "wf_cache"])
  /\ UNCHANGED <<now, cache, lastCacheUpdate, activeReads, heap, fileQueues, faults, crashed, old, written, currentMessageFileIndex, messageProcessor>>

\* After the rename: the cache entry becomes the array that was written (the object
\* itself, not a copy), stamped with the current time.
WfCache(t) ==
  LET r == tasks[t]
      c2 == [cache EXCEPT ![r.file] = r.data]
      ts2 == Set(tasks, t, Return(r, r.data, heap))
  IN
  /\ ~crashed /\ r.st = "run" /\ r.pc = "wf_cache"
  /\ cache' = c2
  /\ lastCacheUpdate' = [lastCacheUpdate EXCEPT ![r.file] = now]
  /\ tasks' = ts2
  /\ heap' = Gc(heap, c2, ts2)
  /\ written' = [written EXCEPT ![r.file] = [at |-> now, recs |-> r.out]]
  /\ UNCHANGED <<now, disk, activeReads, fileQueues, faults, crashed, old, currentMessageFileIndex, messageProcessor>>

\* What a task does with an error thrown in its body: the operations let it reject
\* their promise, but the per-file operation of deleteMessagesByRoomId catches it.
Throw(r, t) == IF r.kind = "purgeFile" THEN Resolve(r, <<>>) ELSE Reject(r, t)

\* fs.writeFile or fs.rename failed: writeFile logs and rethrows.
WfFail(t) ==
  LET r == tasks[t]
      ts2 == Set(tasks, t, Throw(r, t))
  IN
  /\ ~crashed /\ r.st = "run" /\ r.pc \in {"wf_open", "wf_write", "wf_rename"}
  /\ faults < MaxFaults /\ faults' = faults + 1
  /\ tasks' = ts2
  /\ heap' = Gc(heap, cache, ts2)
  /\ written' = [written EXCEPT ![r.file] = NoWrite]
  /\ UNCHANGED <<now, disk, cache, lastCacheUpdate, activeReads, fileQueues, crashed, old, currentMessageFileIndex, messageProcessor>>

\* ------------------------------------------------- queueFileOperation
\* queueFileOperation(filePath, operation): the new promise is chained to the one
\* the map holds for the file, and replaces it.
Enqueue(kind, f, arg) ==
  /\ tasks' = Append(tasks, NewTask(kind, f, fileQueues[f], arg))
  /\ fileQueues' = [fileQueues EXCEPT ![f] = Len(tasks) + 1]

\* A queue that calls operation() at once, without chaining it.
RunnableUnchained(t) == tasks[t].st = "wait"

\* currentQueue.then(() => operation()): the body starts once the promise it is
\* chained to is fulfilled.
Runnable(t) ==
  /\ tasks[t].st = "wait"
  /\ IF tasks[t].pred = 0 THEN TRUE ELSE tasks[tasks[t].pred].st = "ok"

\* The promise it is chained to is rejected: then() skips the body, catch() logs and
\* rethrows, so this promise is rejected with the same error.
QueueSkip(t) ==
  LET r == tasks[t] IN
  /\ ~crashed /\ r.st = "wait" /\ r.pred # 0 /\ tasks[r.pred].st = "err"
  /\ tasks' = Set(tasks, t, Settled(r, "err", tasks[r.pred].err, <<>>))
  /\ UNCHANGED <<now, disk, cache, lastCacheUpdate, activeReads, heap, fileQueues,
                 faults, crashed, old, written, currentMessageFileIndex, messageProcessor>>

\* ---------------------------------------------------------- createUser
CreateUser(name) ==
  /\ ~crashed /\ Len(tasks) < MaxTasks
  /\ Enqueue("createUser", usersFile, Rec(Len(tasks) + 1, name))
  /\ UNCHANGED <<now, disk, cache, lastCacheUpdate, activeReads, heap, faults, crashed, old, written, currentMessageFileIndex, messageProcessor>>

\* The body starts: readFile(this.usersFile).
CreateUserStart(t) ==
  LET r == tasks[t]
      call == ReadFileCall([r EXCEPT !.st = "run"], usersFile, "cu_check")
      ts2 == Set(tasks, t, call[1])
  IN
  /\ ~crashed /\ r.kind = "createUser" /\ Runnable(t)
  /\ tasks' = ts2
  /\ activeReads' = call[2]
  /\ heap' = Gc(heap, cache, ts2)
  /\ UNCHANGED <<now, disk, cache, lastCacheUpdate, fileQueues, faults, crashed, old, written, currentMessageFileIndex, messageProcessor>>

\* users.find(...): 'Username already exists' is thrown, or the password is hashed.
CreateUserCheck(t) ==
  LET r == tasks[t]
      users == heap[r.data]
      existingUser == \E i \in DOMAIN users : users[i].key = r.arg.key
      ts2 == Set(tasks, t, IF existingUser
                           THEN [Throw(r, t) EXCEPT !.msg = "Username already exists"]
                           ELSE [r EXCEPT !.pc = "cu_hash"])
  IN
  /\ ~crashed /\ r.st = "run" /\ r.kind = "createUser" /\ r.pc = "cu_check"
  /\ tasks' = ts2
  /\ heap' = Gc(heap, cache, ts2)
  /\ UNCHANGED <<now, disk, cache, lastCacheUpdate, activeReads, fileQueues, faults, crashed, old, written, currentMessageFileIndex, messageProcessor>>

\* After bcrypt: users.push(newUser), writeFile(this.usersFile, users).
CreateUserPush(t) ==
  LET r == tasks[t]
      h2 == [heap EXCEPT ![r.data] = Append(@, r.arg)]
      ts2 == Set(tasks, t, WriteFileCall(r, usersFile, r.data, h2, "resolve"))
  IN
  /\ ~crashed /\ r.st = "run" /\ r.kind = "createUser" /\ r.pc = "cu_hash"
  /\ tasks' = ts2
  /\ heap' = Gc(h2, cache, ts2)
  /\ UNCHANGED <<now, disk, cache, lastCacheUpdate, activeReads, fileQueues, faults, crashed, old, written, currentMessageFileIndex, messageProcessor>>

\* ------------------------------------------------------ createUsersBatch
UsersData(t, names) == [i \in DOMAIN names |-> Rec(10 * t + i, names[i])]

\* isLoadTest is read from the environment of the process: it is the same in every
\* call of a behaviour.
CreateUsersBatch(names, isLoadTest) ==
  /\ ~crashed /\ Len(tasks) < MaxTasks
  /\ \A u \in DOMAIN tasks :
       tasks[u].kind = "createUsersBatch" => tasks[u].isLoadTest = isLoadTest
  /\ tasks' = Append(tasks, [NewTask("createUsersBatch", usersFile, fileQueues[usersFile],
                                     UsersData(Len(tasks) + 1, names))
                               EXCEPT !.isLoadTest = isLoadTest])
  /\ fileQueues' = [fileQueues EXCEPT ![usersFile] = Len(tasks) + 1]
  /\ UNCHANGED <<now, disk, cache, lastCacheUpdate, activeReads, heap, faults, crashed,
                 old, written, currentMessageFileIndex, messageProcessor>>

\* The body starts: readFile(this.usersFile).
UbStart(t) ==
  LET r == tasks[t]
      call == ReadFileCall([r EXCEPT !.st = "run"], usersFile, "ub_check")
      ts2 == Set(tasks, t, call[1])
  IN
  /\ ~crashed /\ r.kind = "createUsersBatch" /\ Runnable(t)
  /\ tasks' = ts2
  /\ activeReads' = call[2]
  /\ heap' = Gc(heap, cache, ts2)
  /\ UNCHANGED <<now, disk, cache, lastCacheUpdate, fileQueues, faults, crashed, old,
                 written, currentMessageFileIndex, messageProcessor>>

\* The fast path: one loop with no await; a user whose name is in existingUsernames
\* is reported in `errors`, the others are pushed and their name added to the set.
RECURSIVE PushFast(_, _, _)
PushFast(users, existingUsernames, usersData) ==
  IF usersData = <<>> THEN users
  ELSE IF usersData[1].key \in existingUsernames
       THEN PushFast(users, existingUsernames, Tail(usersData))
       ELSE PushFast(Append(users, usersData[1]),
                     existingUsernames \cup {usersData[1].key}, Tail(usersData))

\* The bcrypt path, batch.map(async ...): every callback runs up to its await of
\* bcrypt.hash before the next one starts, so all the users of the slice are checked
\* against existingUsernames as it is before the slice.
batchPromises(batch, existingUsernames) ==
  SelectSeq(batch, LAMBDA userData : userData.key \notin existingUsernames)

\* One turn of the for loop up to `await Promise.all(batchPromises)`, or, after the
\* last slice, writeFile(this.usersFile, users).
UsersSlice(r, h) ==
  LET n == IF Len(r.todo) < hashBatchSize THEN Len(r.todo) ELSE hashBatchSize IN
  IF r.todo = <<>> THEN WriteFileCall(r, usersFile, r.data, h, "resolve")
  ELSE [r EXCEPT !.pc = "ub_hashing",
                 !.acc = batchPromises(SubSeq(r.todo, 1, n), r.existingUsernames),
                 !.todo = SubSeq(r.todo, n + 1, Len(r.todo))]

\* After readFile: existingUsernames is built; the fast path does all its work and
\* calls writeFile, the bcrypt path awaits bcrypt.genSalt.
UbCheck(t) ==
  LET r == tasks[t]
      users == heap[r.data]
      existingUsernames == {users[i].key : i \in DOMAIN users}
      h2 == [heap EXCEPT ![r.data] = PushFast(@, existingUsernames, r.arg)]
      ts2 == Set(tasks, t,
                 IF r.isLoadTest
                 THEN WriteFileCall(r, usersFile, r.data, h2, "resolve")
                 ELSE [r EXCEPT !.pc = "ub_salt", !.todo = r.arg,
                                !.existingUsernames = existingUsernames])
  IN
  /\ ~crashed /\ r.st = "run" /\ r.kind = "createUsersBatch" /\ r.pc = "ub_check"
  /\ tasks' = ts2
  /\ heap' = Gc(IF r.isLoadTest THEN h2 ELSE heap, cache, ts2)
  /\ UNCHANGED <<now, disk, cache, lastCacheUpdate, activeReads, fileQueues, faults,
                 crashed, old, written, currentMessageFileIndex, messageProcessor>>

\* bcrypt.genSalt has resolved: the first slice is mapped.
UbSalt(t) ==
  LET r == tasks[t]
      ts2 == Set(tasks, t, UsersSlice(r, heap))
  IN
  /\ ~crashed /\ r.st = "run" /\ r.kind = "createUsersBatch" /\ r.pc = "ub_salt"
  /\ tasks' = ts2
  /\ heap' = Gc(heap, cache, ts2)
  /\ UNCHANGED <<now, disk, cache, lastCacheUpdate, activeReads, fileQueues, faults,
                 crashed, old, written, currentMessageFileIndex, messageProcessor>>

\* Promise.all has resolved: the users of the slice that passed the check are pushed
\* and their names added to existingUsernames; then the next slice, or the write.
UbResults(t) ==
  LET r == tasks[t]
      h2 == [heap EXCEPT ![r.data] = @ \o r.acc]
      r2 == [r EXCEPT !.acc = <<>>,
                      !.existingUsernames = @ \cup {r.acc[i].key : i \in DOMAIN r.acc}]
      ts2 == Set(tasks, t, UsersSlice(r2, h2))
  IN
  /\ ~crashed /\ r.st = "run" /\ r.kind = "createUsersBatch" /\ r.pc = "ub_hashing"
  /\ tasks' = ts2
  /\ heap' = Gc(h2, cache, ts2)
  /\ UNCHANGED <<now, disk, cache, lastCacheUpdate, activeReads, fileQueues, faults,
                 crashed, old, written, currentMessageFileIndex, messageProcessor>>

CreateUsersBatchStep(t) ==
  \/ UbStart(t)
  \/ UbCheck(t)
  \/ UbSalt(t)
  \/ UbResults(t)

\* ------------------------------------------------------ createChatRoom
CreateChatRoom(name) ==
  /\ ~crashed /\ Len(tasks) < MaxTasks
  /\ Enqueue("createChatRoom", chatRoomsFile, Rec(Len(tasks) + 1, name))
  /\ UNCHANGED <<now, disk, cache, lastCacheUpdate, activeReads, heap, faults, crashed, old, written, currentMessageFileIndex, messageProcessor>>

\* The body starts: readFile(this.chatRoomsFile).
CreateChatRoomStart(t) ==
  LET r == tasks[t]
      call == ReadFileCall([r EXCEPT !.st = "run"], chatRoomsFile, "cr_push")
      ts2 == Set(tasks, t, call[1])
  IN
  /\ ~crashed /\ r.kind = "createChatRoom" /\ Runnable(t)
  /\ tasks' = ts2
  /\ activeReads' = call[2]
  /\ heap' = Gc(heap, cache, ts2)
  /\ UNCHANGED <<now, disk, cache, lastCacheUpdate, fileQueues, faults, crashed, old, written, currentMessageFileIndex, messageProcessor>>

\* chatRooms.push(newRoom), writeFile(this.chatRoomsFile, chatRooms).
CreateChatRoomPush(t) ==
  LET r == tasks[t]
      h2 == [heap EXCEPT ![r.data] = Append(@, r.arg)]
      ts2 == Set(tasks, t, WriteFileCall(r, chatRoomsFile, r.data, h2, "resolve"))
  IN
  /\ ~crashed /\ r.st = "run" /\ r.kind = "createChatRoom" /\ r.pc = "cr_push"
  /\ tasks' = ts2
  /\ heap' = Gc(h2, cache, ts2)
  /\ UNCHANGED <<now, disk, cache, lastCacheUpdate, activeReads, fileQueues, faults, crashed, old, written, currentMessageFileIndex, messageProcessor>>

CreateChatRoomStep(t) ==
  \/ CreateChatRoomStart(t)
  \/ CreateChatRoomPush(t)

\* -------------------------------------------------- createChatRoomsBatch
RoomsData(t, names) == [i \in DOMAIN names |-> Rec(10 * t + i, names[i])]

CreateChatRoomsBatch(names) ==
  /\ ~crashed /\ Len(tasks) < MaxTasks
  /\ Enqueue("createChatRoomsBatch", chatRoomsFile, RoomsData(Len(tasks) + 1, names))
  /\ UNCHANGED <<now, disk, cache, lastCacheUpdate, activeReads, heap, faults, crashed,
                 old, written, currentMessageFileIndex, messageProcessor>>

\* The body starts: readFile(this.chatRoomsFile).
RbStart(t) ==
  LET r == tasks[t]
      call == ReadFileCall([r EXCEPT !.st = "run"], chatRoomsFile, "rb_loop")
      ts2 == Set(tasks, t, call[1])
  IN
  /\ ~crashed /\ r.kind = "createChatRoomsBatch" /\ Runnable(t)
  /\ tasks' = ts2
  /\ activeReads' = call[2]
  /\ heap' = Gc(heap, cache, ts2)
  /\ UNCHANGED <<now, disk, cache, lastCacheUpdate, fileQueues, faults, crashed, old,
                 written, currentMessageFileIndex, messageProcessor>>

\* The for loop: a room whose roomId is in existingRoomIds (the rooms read and those
\* pushed so far) is reported in `errors` and skipped, the others are pushed.
RECURSIVE PushNewRooms(_, _)
PushNewRooms(chatRooms, roomsData) ==
  IF roomsData = <<>> THEN chatRooms
  ELSE IF \E i \in DOMAIN chatRooms : chatRooms[i].key = roomsData[1].key
       THEN PushNewRooms(chatRooms, Tail(roomsData))
       ELSE PushNewRooms(Append(chatRooms, roomsData[1]), Tail(roomsData))

\* The loop, then writeFile(this.chatRoomsFile, chatRooms).
RbLoop(t) ==
  LET r == tasks[t]
      h2 == [heap EXCEPT ![r.data] = PushNewRooms(@, r.arg)]
      ts2 == Set(tasks, t, WriteFileCall(r, chatRoomsFile, r.data, h2, "resolve"))
  IN
  /\ ~crashed /\ r.st = "run" /\ r.kind = "createChatRoomsBatch" /\ r.pc = "rb_loop"
  /\ tasks' = ts2
  /\ heap' = Gc(h2, cache, ts2)
  /\ UNCHANGED <<now, disk, cache, lastCacheUpdate, activeReads, fileQueues, faults,
                 crashed, old, written, currentMessageFileIndex, messageProcessor>>

CreateChatRoomsBatchStep(t) ==
  \/ RbStart(t)
  \/ RbLoop(t)

\* ------------------------------------------------------ message files
getCurrentMessageFile == MessageFile(currentMessageFileIndex)

\* createNewMessageFile(): the index is incremented, then initializeFile(newFile, [])
\* awaits fs.access.  The caller continues at `ret`.
CreateNewMessageFileCall(r, ret) ==
  [r EXCEPT !.pc = "nf_access", !.ret = ret,
            !.file = MessageFile(currentMessageFileIndex + 1)]

\* initializeFile: fs.access succeeds (the file exists, nothing is written) or fails.
NfAccess(t) ==
  LET r == tasks[t] IN
  /\ ~crashed /\ r.st = "run" /\ r.pc = "nf_access"
  /\ tasks' = Set(tasks, t, [r EXCEPT !.pc = IF disk[r.file].st = "absent"
                                               THEN "nf_open" ELSE r.ret])
  /\ UNCHANGED <<now, disk, cache, lastCacheUpdate, activeReads, heap, fileQueues,
                 faults, crashed, old, written, currentMessageFileIndex, messageProcessor>>

\* initializeFile: fs.writeFile(filePath, '[]') writes the file itself: it is
\* truncated first, whatever it holds by now.
NfOpen(t) ==
  LET r == tasks[t] IN
  /\ ~crashed /\ r.st = "run" /\ r.pc = "nf_open"
  /\ disk' = [disk EXCEPT ![r.file] = Partial]
  /\ tasks' = Set(tasks, t, [r EXCEPT !.pc = "nf_write"])
  /\ UNCHANGED <<now, cache, lastCacheUpdate, activeReads, heap, fileQueues,
                 faults, crashed, old, written, currentMessageFileIndex, messageProcessor>>

NfWrite(t) ==
  LET r == tasks[t] IN
  /\ ~crashed /\ r.st = "run" /\ r.pc = "nf_write"
  /\ disk' = [disk EXCEPT ![r.file] = Content(<<>>)]
  /\ tasks' = Set(tasks, t, [r EXCEPT !.pc = r.ret])
  /\ UNCHANGED <<now, cache, lastCacheUpdate, activeReads, heap, fileQueues,
                 faults, crashed, old, written, currentMessageFileIndex, messageProcessor>>

NewFileStep(t) ==
  \/ NfAccess(t)
  \/ NfOpen(t)
  \/ NfWrite(t)

\* -------------------------------------------------------- createMessage
Rooms == {"r", "s"}

\* createMessage(messageData): queued under the file that is current at the call.
CreateMessage(room) ==
  /\ ~crashed /\ Len(tasks) < MaxTasks
  /\ Enqueue("createMessage", getCurrentMessageFile, Rec(Len(tasks) + 1, room))
  /\ UNCHANGED <<now, disk, cache, lastCacheUpdate, activeReads, heap, faults, crashed,
                 old, written, currentMessageFileIndex, messageProcessor>>

\* The body starts: shouldCreateNewMessageFile() reads the current file.
CmStart(t) ==
  LET r == tasks[t]
      call == ReadFileCall([r EXCEPT !.st = "run"], getCurrentMessageFile, "cm_should")
      ts2 == Set(tasks, t, call[1])
  IN
  /\ ~crashed /\ r.kind = "createMessage" /\ Runnable(t)
  /\ tasks' = ts2
  /\ activeReads' = call[2]
  /\ heap' = Gc(heap, cache, ts2)
  /\ UNCHANGED <<now, disk, cache, lastCacheUpdate, fileQueues, faults, crashed, old,
                 written, currentMessageFileIndex, messageProcessor>>

\* A check that lets one record more into the file.
shouldCreateNewMessageFileLate(messages) == Len(messages) > maxMessagesPerFile

\* messages.length >= this.maxMessagesPerFile
shouldCreateNewMessageFile(messages) == Len(messages) >= maxMessagesPerFile

\* After the check: createNewMessageFile() when the file is full (the index is
\* incremented at once), otherwise the file that is current now is read.
CmShould(t) ==
  LET r == tasks[t]
      full == shouldCreateNewMessageFile(heap[r.data])
      call == ReadFileCall(r, getCurrentMessageFile, "cm_push")
      ts2 == Set(tasks, t, IF full THEN CreateNewMessageFileCall(r, "cm_read") ELSE call[1])
  IN
  /\ ~crashed /\ r.st = "run" /\ r.kind = "createMessage" /\ r.pc = "cm_should"
  /\ full => currentMessageFileIndex < MaxIndex
  /\ currentMessageFileIndex' = IF full THEN currentMessageFileIndex + 1
                                ELSE currentMessageFileIndex
  /\ tasks' = ts2
  /\ activeReads' = IF full THEN activeReads ELSE call[2]
  /\ heap' = Gc(heap, cache, ts2)
  /\ UNCHANGED <<now, disk, cache, lastCacheUpdate, fileQueues, faults, crashed, old,
                 written, messageProcessor>>

\* After createNewMessageFile(): activeFile = getCurrentMessageFile(), readFile.
CmRead(t) ==
  LET r == tasks[t]
      call == ReadFileCall(r, getCurrentMessageFile, "cm_push")
      ts2 == Set(tasks, t, call[1])
  IN
  /\ ~crashed /\ r.st = "run" /\ r.kind = "createMessage" /\ r.pc = "cm_read"
  /\ tasks' = ts2
  /\ activeReads' = call[2]
  /\ heap' = Gc(heap, cache, ts2)
  /\ UNCHANGED <<now, disk, cache, lastCacheUpdate, fileQueues, faults, crashed, old,
                 written, currentMessageFileIndex, messageProcessor>>

\* messages.push(newMessage), writeFile(activeFile, messages).
CmPush(t) ==
  LET r == tasks[t]
      h2 == [heap EXCEPT ![r.data] = Append(@, r.arg)]
      ts2 == Set(tasks, t, WriteFileCall(r, r.file, r.data, h2, "resolve"))
  IN
  /\ ~crashed /\ r.st = "run" /\ r.kind = "createMessage" /\ r.pc = "cm_push"
  /\ tasks' = ts2
  /\ heap' = Gc(h2, cache, ts2)
  /\ UNCHANGED <<now, disk, cache, lastCacheUpdate, activeReads, fileQueues, faults,
                 crashed, old, written, currentMessageFileIndex, messageProcessor>>

CreateMessageStep(t) ==
  \/ CmStart(t)
  \/ CmShould(t)
  \/ CmRead(t)
  \/ CmPush(t)

\* --------------------------------------------------- createMessagesBatch
Batch(t, n, room) == [i \in 1..n |-> Rec(10 * t + i, room)]

\* createMessagesBatch(messagesData): queued under the file that is current at the
\* call.
CreateMessagesBatch(batch) ==
  /\ ~crashed /\ Len(tasks) < MaxTasks
  /\ Enqueue("createMessagesBatch", getCurrentMessageFile, batch)
  /\ UNCHANGED <<now, disk, cache, lastCacheUpdate, activeReads, heap, faults, crashed,
                 old, written, currentMessageFileIndex, messageProcessor>>

\* The body starts: activeFile = getCurrentMessageFile(), readFile(activeFile).
CbStart(t) ==
  LET r == tasks[t]
      call == ReadFileCall([r EXCEPT !.st = "run", !.todo = r.arg],
                           getCurrentMessageFile, "cb_loop")
      ts2 == Set(tasks, t, call[1])
  IN
  /\ ~crashed /\ r.kind = "createMessagesBatch" /\ Runnable(t)
  /\ tasks' = ts2
  /\ activeReads' = call[2]
  /\ heap' = Gc(heap, cache, ts2)
  /\ UNCHANGED <<now, disk, cache, lastCacheUpdate, fileQueues, faults, crashed, old,
                 written, currentMessageFileIndex, messageProcessor>>

\* A loop that pushes nothing into a file the batch would fill: the file is written
\* as it is and the records go to the next one.
BatchLoopSum(r, f, o, h) ==
  LET room == IF Len(h[o]) + Len(r.todo) >= maxMessagesPerFile /\ h[o] # <<>>
              THEN 0 ELSE maxMessagesPerFile - Len(h[o])
      n == IF room <= 0 THEN 0 ELSE IF Len(r.todo) < room THEN Len(r.todo) ELSE room
      h2 == [h EXCEPT ![o] = @ \o SubSeq(r.todo, 1, n)]
      rest == SubSeq(r.todo, n + 1, Len(r.todo))
  IN
  <<WriteFileCall([r EXCEPT !.todo = rest], f, o, h2,
                  IF rest = <<>> THEN "cb_done" ELSE "cb_new"), h2>>

\* The for loop up to its next await: records are pushed until the array is full or
\* the batch is exhausted, then writeFile(activeFile, messages) is called, inside the
\* loop (more records are left) or after it.  Yields <<task, heap>>.
BatchLoop(r, f, o, h) ==
  LET room == maxMessagesPerFile - Len(h[o])
      n == IF room <= 0 THEN 0 ELSE IF Len(r.todo) < room THEN Len(r.todo) ELSE room
      h2 == [h EXCEPT ![o] = @ \o SubSeq(r.todo, 1, n)]
      rest == SubSeq(r.todo, n + 1, Len(r.todo))
  IN
  <<WriteFileCall([r EXCEPT !.todo = rest], f, o, h2,
                  IF rest = <<>> THEN "cb_done" ELSE "cb_new"), h2>>

CbLoop(t) ==
  LET r == tasks[t]
      step == BatchLoop(r, r.file, r.data, heap)
      ts2 == Set(tasks, t, step[1])
  IN
  /\ ~crashed /\ r.st = "run" /\ r.kind = "createMessagesBatch" /\ r.pc = "cb_loop"
  /\ tasks' = ts2
  /\ heap' = Gc(step[2], cache, ts2)
  /\ UNCHANGED <<now, disk, cache, lastCacheUpdate, activeReads, fileQueues, faults,
                 crashed, old, written, currentMessageFileIndex, messageProcessor>>

\* The full file is written: createNewMessageFile().
CbNew(t) ==
  LET r == tasks[t]
      ts2 == Set(tasks, t, CreateNewMessageFileCall(r, "cb_blank"))
  IN
  /\ ~crashed /\ r.st = "run" /\ r.kind = "createMessagesBatch" /\ r.pc = "cb_new"
  /\ currentMessageFileIndex < MaxIndex
  /\ currentMessageFileIndex' = currentMessageFileIndex + 1
  /\ tasks' = ts2
  /\ heap' = Gc(heap, cache, ts2)
  /\ UNCHANGED <<now, disk, cache, lastCacheUpdate, activeReads, fileQueues, faults,
                 crashed, old, written, messageProcessor>>

\* activeFile = getCurrentMessageFile(), messages = [], and the loop goes on.
CbBlank(t) ==
  LET r == tasks[t]
      o == NewObj(cache, tasks)
      step == BatchLoop(r, getCurrentMessageFile, o, [heap EXCEPT ![o] = <<>>])
      ts2 == Set(tasks, t, step[1])
  IN
  /\ ~crashed /\ r.st = "run" /\ r.kind = "createMessagesBatch" /\ r.pc = "cb_blank"
  /\ tasks' = ts2
  /\ heap' = Gc(step[2], cache, ts2)
  /\ UNCHANGED <<now, disk, cache, lastCacheUpdate, activeReads, fileQueues, faults,
                 crashed, old, written, currentMessageFileIndex, messageProcessor>>

\* The final file is written: return allNewMessages.
CbDone(t) ==
  LET r == tasks[t]
      ts2 == Set(tasks, t, Resolve(r, r.arg))
  IN
  /\ ~crashed /\ r.st = "run" /\ r.kind = "createMessagesBatch" /\ r.pc = "cb_done"
  /\ tasks' = ts2
  /\ heap' = Gc(heap, cache, ts2)
  /\ UNCHANGED <<now, disk, cache, lastCacheUpdate, activeReads, fileQueues, faults,
                 crashed, old, written, currentMessageFileIndex, messageProcessor>>

CreateMessagesBatchStep(t) ==
  \/ CbStart(t)
  \/ CbLoop(t)
  \/ CbNew(t)
  \/ CbBlank(t)
  \/ CbDone(t)

\* ------------------------------------------------ deleteMessagesByRoomId
\* getAllMessageFiles(): the message files of the data directory, by index.  (The
\* legacy messages.json, which nothing appends to, is left out.)
RECURSIVE FilesFrom(_, _)
FilesFrom(d, i) ==
  IF i > MaxIndex THEN <<>>
  ELSE (IF d[MessageFile(i)].st # "absent" THEN <<MessageFile(i)>> ELSE <<>>)
       \o FilesFrom(d, i + 1)
getAllMessageFiles(d) == FilesFrom(d, 1)

\* deleteMessagesByRoomId(roomId) is not queued itself: it awaits readdir first.
DeleteMessagesByRoomId(room) ==
  /\ ~crashed /\ Len(tasks) < MaxTasks
  /\ \A t \in DOMAIN tasks : tasks[t].kind # "deleteMessagesByRoomId"
  /\ tasks' = Append(tasks, [NewTask("deleteMessagesByRoomId", NoFile, 0, room)
                               EXCEPT !.st = "run", !.pc = "dm_list"])
  /\ UNCHANGED <<now, disk, cache, lastCacheUpdate, activeReads, heap, fileQueues,
                 faults, crashed, old, written, currentMessageFileIndex, messageProcessor>>

\* A loop that chains the operation on a file to the queue its caller is in.
DeleteLoopCallerQueue(r, t, files) ==
  IF files = <<>> THEN <<Resolve(r, <<>>)>>
  ELSE <<[r EXCEPT !.pc = "dm_wait", !.todo = Tail(files), !.child = Len(tasks) + 1],
         NewTask("purgeFile", files[1],
                 IF r.key = NoFile THEN fileQueues[files[1]] ELSE t, r.arg)>>

\* The for loop up to its next await: the operation on the next file is queued, or
\* the loop is over and true is returned.
DeleteLoop(r, t, files) ==
  IF files = <<>> THEN <<Resolve(r, <<>>)>>
  ELSE <<[r EXCEPT !.pc = "dm_wait", !.todo = Tail(files), !.child = Len(tasks) + 1],
         NewTask("purgeFile", files[1], fileQueues[files[1]], r.arg)>>

DmEnqueue(t, files) ==
  LET step == DeleteLoop(tasks[t], t, files) IN
  /\ tasks' = IF Len(step) = 1 THEN Set(tasks, t, step[1])
              ELSE Append(Set(tasks, t, step[1]), step[2])
  /\ fileQueues' = IF Len(step) = 1 THEN fileQueues
                   ELSE [fileQueues EXCEPT ![files[1]] = Len(tasks) + 1]

\* deleteMessagesByRoomId runs as a call of its own, or inside the operation of
\* deleteChatRoom, which awaits it and then returns true.
PurgeKinds == {"deleteMessagesByRoomId", "deleteChatRoom"}

\* readdir has answered.
DmList(t) ==
  LET r == tasks[t] IN
  /\ ~crashed /\ r.st = "run" /\ r.kind \in PurgeKinds /\ r.pc = "dm_list"
  /\ DmEnqueue(t, getAllMessageFiles(disk))
  /\ UNCHANGED <<now, disk, cache, lastCacheUpdate, activeReads, heap, faults, crashed,
                 old, written, currentMessageFileIndex, messageProcessor>>

\* The queued operation on a file has settled: the next file, or the rejection of
\* the queue is thrown on.
DmNext(t) ==
  LET r == tasks[t] IN
  /\ ~crashed /\ r.st = "run" /\ r.kind \in PurgeKinds /\ r.pc = "dm_wait"
  /\ \/ /\ tasks[r.child].st = "ok"
        /\ DmEnqueue(t, r.todo)
     \/ /\ tasks[r.child].st = "err"
        /\ tasks' = Set(tasks, t, Reject(r, tasks[r.child].err))
        /\ UNCHANGED fileQueues
  /\ UNCHANGED <<now, disk, cache, lastCacheUpdate, activeReads, heap, faults, crashed,
                 old, written, currentMessageFileIndex, messageProcessor>>

\* The operation on one file starts: readFile(messageFile).
PfStart(t) ==
  LET r == tasks[t]
      call == ReadFileCall([r EXCEPT !.st = "run"], r.key, "pf_filter")
      ts2 == Set(tasks, t, call[1])
  IN
  /\ ~crashed /\ r.kind = "purgeFile" /\ Runnable(t)
  /\ tasks' = ts2
  /\ activeReads' = call[2]
  /\ heap' = Gc(heap, cache, ts2)
  /\ UNCHANGED <<now, disk, cache, lastCacheUpdate, fileQueues, faults, crashed, old,
                 written, currentMessageFileIndex, messageProcessor>>

\* messages.filter(...): the filtered copy is written if a record was removed.
PfFilter(t) ==
  LET r == tasks[t]
      messages == heap[r.data]
      Keep(message) == message.key # r.arg
      filteredMessages == SelectSeq(messages, Keep)
      o == NewObj(cache, tasks)
      h2 == [heap EXCEPT ![o] = filteredMessages]
      ts2 == Set(tasks, t, IF Len(messages) - Len(filteredMessages) > 0
                           THEN WriteFileCall(r, r.key, o, h2, "pf_done")
                           ELSE Resolve(r, <<>>))
  IN
  /\ ~crashed /\ r.st = "run" /\ r.kind = "purgeFile" /\ r.pc = "pf_filter"
  /\ tasks' = ts2
  /\ heap' = Gc(h2, cache, ts2)
  /\ UNCHANGED <<now, disk, cache, lastCacheUpdate, activeReads, fileQueues, faults,
                 crashed, old, written, currentMessageFileIndex, messageProcessor>>

PfDone(t) ==
  LET r == tasks[t]
      ts2 == Set(tasks, t, Resolve(r, <<>>))
  IN
  /\ ~crashed /\ r.st = "run" /\ r.kind = "purgeFile" /\ r.pc = "pf_done"
  /\ tasks' = ts2
  /\ heap' = Gc(heap, cache, ts2)
  /\ UNCHANGED <<now, disk, cache, lastCacheUpdate, activeReads, fileQueues, faults,
                 crashed, old, written, currentMessageFileIndex, messageProcessor>>

DeleteMessagesStep(t) ==
  \/ DmList(t)
  \/ DmNext(t)
  \/ PfStart(t)
  \/ PfFilter(t)
  \/ PfDone(t)

\* ------------------------------------------------------ deleteChatRoom
\* deleteChatRoom(roomId): queued under the chat rooms file.
deleteChatRoom(room) ==
  /\ ~crashed /\ Len(tasks) < MaxTasks
  /\ \A t \in DOMAIN tasks : tasks[t].kind # "deleteChatRoom"
  /\ Enqueue("deleteChatRoom", chatRoomsFile, room)
  /\ UNCHANGED <<now, disk, cache, lastCacheUpdate, activeReads, heap, faults, crashed,
                 old, written, currentMessageFileIndex, messageProcessor>>

\* The body starts: readFile(this.chatRoomsFile).
DcStart(t) ==
  LET r == tasks[t]
      call == ReadFileCall([r EXCEPT !.st = "run"], chatRoomsFile, "dc_filter")
      ts2 == Set(tasks, t, call[1])
  IN
  /\ ~crashed /\ r.kind = "deleteChatRoom" /\ Runnable(t)
  /\ tasks' = ts2
  /\ activeReads' = call[2]
  /\ heap' = Gc(heap, cache, ts2)
  /\ UNCHANGED <<now, disk, cache, lastCacheUpdate, fileQueues, faults, crashed, old,
                 written, currentMessageFileIndex, messageProcessor>>

\* chatRooms.filter(room => room.roomId !== roomId)
filterRooms(chatRooms, room) ==
  LET Keep(chatRoom) == chatRoom.key # room IN SelectSeq(chatRooms, Keep)

\* 'Chat room not found' if nothing was removed; else writeFile(chatRoomsFile,
\* filteredRooms), after which deleteMessagesByRoomId(roomId) is called.
DcFilter(t) ==
  LET r == tasks[t]
      chatRooms == heap[r.data]
      filteredRooms == filterRooms(chatRooms, r.arg)
      o == NewObj(cache, tasks)
      h2 == [heap EXCEPT ![o] = filteredRooms]
      ts2 == Set(tasks, t, IF Len(chatRooms) = Len(filteredRooms)
                           THEN [Throw(r, t) EXCEPT !.msg = "Chat room not found"]
                           ELSE WriteFileCall(r, chatRoomsFile, o, h2, "dm_list"))
  IN
  /\ ~crashed /\ r.st = "run" /\ r.kind = "deleteChatRoom" /\ r.pc = "dc_filter"
  /\ tasks' = ts2
  /\ heap' = Gc(h2, cache, ts2)
  /\ UNCHANGED <<now, disk, cache, lastCacheUpdate, activeReads, fileQueues, faults,
                 crashed, old, written, currentMessageFileIndex, messageProcessor>>

DeleteChatRoomStep(t) ==
  \/ DcStart(t)
  \/ DcFilter(t)

\* ------------------------------------------------------ updateChatRoom
\* A chat room with its participants.
Room(id, key, participants) == [id |-> id, key |-> key, participants |-> participants]

Includes(participants, p) == \E i \in DOMAIN participants : participants[i] = p

\* chatRooms.findIndex(room => room.roomId === roomId), 0 for -1.
findIndex(chatRooms, roomId) ==
  IF \A i \in DOMAIN chatRooms : chatRooms[i].key # roomId THEN 0
  ELSE CHOOSE i \in DOMAIN chatRooms :
         /\ chatRooms[i].key = roomId
         /\ \A j \in 1..(i - 1) : chatRooms[j].key # roomId

\* The body starts: readFile(this.chatRoomsFile).
UcStart(t) ==
  LET r == tasks[t]
      call == ReadFileCall([r EXCEPT !.st = "run"], chatRoomsFile, "uc_update")
      ts2 == Set(tasks, t, call[1])
  IN
  /\ ~crashed /\ r.kind = "updateChatRoom" /\ Runnable(t)
  /\ tasks' = ts2
  /\ activeReads' = call[2]
  /\ heap' = Gc(heap, cache, ts2)
  /\ UNCHANGED <<now, disk, cache, lastCacheUpdate, fileQueues, faults, crashed, old,
                 written, currentMessageFileIndex, messageProcessor>>

\* 'Chat room not found', or chatRooms[roomIndex] = {...chatRooms[roomIndex],
\* ...updateData} and writeFile(this.chatRoomsFile, chatRooms).
UcUpdate(t) ==
  LET r == tasks[t]
      chatRooms == heap[r.data]
      roomIndex == findIndex(chatRooms, r.arg.key)
      h2 == [heap EXCEPT ![r.data][roomIndex].participants = r.arg.participants]
      ts2 == Set(tasks, t, IF roomIndex = 0
                           THEN [Throw(r, t) EXCEPT !.msg = "Chat room not found"]
                           ELSE WriteFileCall(r, chatRoomsFile, r.data, h2, "resolve"))
  IN
  /\ ~crashed /\ r.st = "run" /\ r.kind = "updateChatRoom" /\ r.pc = "uc_update"
  /\ tasks' = ts2
  /\ heap' = Gc(IF roomIndex = 0 THEN heap ELSE h2, cache, ts2)
  /\ UNCHANGED <<now, disk, cache, lastCacheUpdate, activeReads, fileQueues, faults,
                 crashed, old, written, currentMessageFileIndex, messageProcessor>>

UpdateChatRoomStep(t) ==
  \/ UcStart(t)
  \/ UcUpdate(t)

\* ------------------------------------- POST /chatrooms/:roomId/invite
\* The handler starts: findChatRoomByRoomId(roomId), a readFile outside any queue.
Invite(roomId, username, participants) ==
  LET arg == [key |-> roomId, username |-> username, participants |-> participants]
      call == ReadFileCall([NewTask("invite", NoFile, 0, arg) EXCEPT !.st = "run"],
                           chatRoomsFile, "iv_found")
      ts2 == Append(tasks, call[1])
  IN
  /\ ~crashed /\ Len(tasks) < MaxTasks
  /\ tasks' = ts2
  /\ activeReads' = call[2]
  /\ heap' = Gc(heap, cache, ts2)
  /\ UNCHANGED <<now, disk, cache, lastCacheUpdate, fileQueues, faults, crashed, old,
                 written, currentMessageFileIndex, messageProcessor>>

\* participants.filter(p => !chatRoom.participants.includes(p)), appended to the
\* participants of the room that was found.
updatedParticipants(chatRoom, participants) ==
  chatRoom.participants
    \o SelectSeq(participants, LAMBDA p : ~Includes(chatRoom.participants, p))

\* The room was looked up: 404, 403, or updateChatRoom(roomId, {participants:
\* updatedParticipants}) is called, which queues its operation on the rooms file.
IvFound(t) ==
  LET r == tasks[t]
      chatRooms == heap[r.data]
      roomIndex == findIndex(chatRooms, r.arg.key)
      chatRoom == chatRooms[roomIndex]
      answer(msg) == Set(tasks, t, [Resolve(r, <<>>) EXCEPT !.msg = msg])
      update == NewTask("updateChatRoom", chatRoomsFile, fileQueues[chatRoomsFile],
                        [key |-> r.arg.key,
                         participants |-> updatedParticipants(chatRoom, r.arg.participants)])
      ts2 == IF roomIndex = 0 THEN answer("Chat room not found")
             ELSE IF ~Includes(chatRoom.participants, r.arg.username)
               THEN answer("You are not a member of this chat room")
             ELSE Append(Set(tasks, t, [r EXCEPT !.pc = "iv_update", !.data = 0,
                                                 !.child = Len(tasks) + 1]),
                         update)
  IN
  /\ ~crashed /\ r.st = "run" /\ r.kind = "invite" /\ r.pc = "iv_found"
  /\ tasks' = ts2
  /\ fileQueues' = IF Len(ts2) = Len(tasks) THEN fileQueues
                   ELSE [fileQueues EXCEPT ![chatRoomsFile] = Len(tasks) + 1]
  /\ heap' = Gc(heap, cache, ts2)
  /\ UNCHANGED <<now, disk, cache, lastCacheUpdate, activeReads, faults, crashed, old,
                 written, currentMessageFileIndex, messageProcessor>>

\* updateChatRoom has settled: the handler answers with the participants of the
\* updated room, or with 500.
IvDone(t) ==
  LET r == tasks[t]
      updated == tasks[r.child].out
      ts2 == Set(tasks, t,
                 IF tasks[r.child].st = "ok"
                 THEN [Resolve(r, updated[findIndex(updated, r.arg.key)].participants)
                         EXCEPT !.msg = "Users invited successfully"]
                 ELSE [Resolve(r, <<>>) EXCEPT !.msg = "Internal server error"])
  IN
  /\ ~crashed /\ r.st = "run" /\ r.kind = "invite" /\ r.pc = "iv_update"
  /\ tasks[r.child].st \in {"ok", "err"}
  /\ tasks' = ts2
  /\ heap' = Gc(heap, cache, ts2)
  /\ UNCHANGED <<now, disk, cache, lastCacheUpdate, activeReads, fileQueues, faults,
                 crashed, old, written, currentMessageFileIndex, messageProcessor>>

InviteStep(t) ==
  \/ IvFound(t)
  \/ IvDone(t)

\* -------------------------------------------------- findMessagesByRoomId
\* A stored message with its timestamp.
Msg(id, room, ts) == [id |-> id, key |-> room, ts |-> ts]

\* A since filter that keeps the messages of the instant itself.
LaterThanOrAt(message, since) == message.ts >= since

\* new Date(message.timestamp) > sinceDate
LaterThan(message, since) == message.ts > since

\* allMessages.sort((a, b) => new Date(a.timestamp) - new Date(b.timestamp)): a
\* stable sort by timestamp.
RECURSIVE InsertByTs(_, _)
InsertByTs(sorted, message) ==
  IF sorted = <<>> THEN <<message>>
  ELSE IF sorted[Len(sorted)].ts <= message.ts THEN Append(sorted, message)
  ELSE Append(InsertByTs(SubSeq(sorted, 1, Len(sorted) - 1), message),
              sorted[Len(sorted)])
RECURSIVE SortByTs(_)
SortByTs(messages) ==
  IF messages = <<>> THEN <<>>
  ELSE InsertByTs(SortByTs(SubSeq(messages, 1, Len(messages) - 1)),
                  messages[Len(messages)])

\* allMessages.slice(0, options.limit)
Slice(messages, limit) ==
  SubSeq(messages, 1, IF limit < Len(messages) THEN limit ELSE Len(messages))

\* findMessagesByRoomId(roomId, options) is not queued: it awaits readdir first.
\* since = 0 and limit = 0 stand for options without them.
findMessagesByRoomId(room, since, limit) ==
  /\ ~crashed /\ Len(tasks) < MaxTasks
  /\ tasks' = Append(tasks, [NewTask("findMessagesByRoomId", NoFile, 0,
                                     [room |-> room, since |-> since, limit |-> limit])
                               EXCEPT !.st = "run", !.pc = "fm_list"])
  /\ UNCHANGED <<now, disk, cache, lastCacheUpdate, activeReads, heap, fileQueues,
                 faults, crashed, old, written, currentMessageFileIndex, messageProcessor>>

\* The end of findMessagesByRoomId: the since filter, the sort, the limit.
FindResult(allMessages, options) ==
  LET Since(message) == LaterThan(message, options.since)
      filtered == IF options.since # 0 THEN SelectSeq(allMessages, Since)
                  ELSE allMessages
      sorted == SortByTs(filtered)
  IN IF options.limit # 0 THEN Slice(sorted, options.limit) ELSE sorted

\* The for loop up to its next await: readFile(messageFile) of the next file, or the
\* loop is over and the result is returned.  Yields <<task, activeReads>>.
FindLoop(r, files) ==
  IF files = <<>> THEN <<Resolve(r, FindResult(r.acc, r.arg)), activeReads>>
  ELSE ReadFileCall([r EXCEPT !.todo = Tail(files)], files[1], "fm_read")

\* readdir has answered.
FmList(t) ==
  LET r == tasks[t]
      step == FindLoop(r, getAllMessageFiles(disk))
      ts2 == Set(tasks, t, step[1])
  IN
  /\ ~crashed /\ r.st = "run" /\ r.kind = "findMessagesByRoomId" /\ r.pc = "fm_list"
  /\ tasks' = ts2
  /\ activeReads' = step[2]
  /\ heap' = Gc(heap, cache, ts2)
  /\ UNCHANGED <<now, disk, cache, lastCacheUpdate, fileQueues, faults, crashed, old,
                 written, currentMessageFileIndex, messageProcessor>>

\* readFile has returned: the messages of the room are added, then the next file.
FmRead(t) ==
  LET r == tasks[t]
      InRoom(message) == message.key = r.arg.room
      roomMessages == SelectSeq(heap[r.data], InRoom)
      step == FindLoop([r EXCEPT !.acc = @ \o roomMessages, !.data = 0], r.todo)
      ts2 == Set(tasks, t, step[1])
  IN
  /\ ~crashed /\ r.st = "run" /\ r.kind = "findMessagesByRoomId" /\ r.pc = "fm_read"
  /\ tasks' = ts2
  /\ activeReads' = step[2]
  /\ heap' = Gc(heap, cache, ts2)
  /\ UNCHANGED <<now, disk, cache, lastCacheUpdate, fileQueues, faults, crashed, old,
                 written, currentMessageFileIndex, messageProcessor>>

FindMessagesStep(t) ==
  \/ FmList(t)
  \/ FmRead(t)

\* ------------------------------------------------ initializeMessageFiles
\* The constructor starts initializeStorage() and does not wait for it: this is the
\* call once it has reached initializeMessageFiles, fs.readdir under way.
initializeMessageFiles ==
  [NewTask("initializeMessageFiles", NoFile, 0, Rec(0, "")) EXCEPT !.st = "run",
                                                                  !.pc = "im_readdir"]

\* fs.readdir lists the directory as it is at some moment of the call.
ImReaddir(t) ==
  LET r == tasks[t] IN
  /\ ~crashed /\ r.st = "run" /\ r.kind = "initializeMessageFiles" /\ r.pc = "im_readdir"
  /\ tasks' = Set(tasks, t, [r EXCEPT !.pc = "im_listed", !.todo = FilesFrom(disk, 1)])
  /\ UNCHANGED <<now, disk, cache, lastCacheUpdate, activeReads, heap, fileQueues,
                 faults, crashed, old, written, currentMessageFileIndex, messageProcessor>>

\* Math.max(...indices) of the files that were listed.
MaxListed(files) ==
  CHOOSE i \in 1..MaxIndex : /\ MessageFile(i) \in {files[k] : k \in DOMAIN files}
                             /\ \A k \in DOMAIN files : files[k][2] <= i

\* readdir has answered: the index becomes the highest one listed, or the first
\* message file is created.
ImListed(t) ==
  LET r == tasks[t]
      messageFiles == r.todo
  IN
  /\ ~crashed /\ r.st = "run" /\ r.kind = "initializeMessageFiles" /\ r.pc = "im_listed"
  /\ IF Len(messageFiles) > 0
     THEN /\ currentMessageFileIndex' = MaxListed(messageFiles)
          /\ tasks' = Set(tasks, t, Resolve(r, <<>>))
     ELSE /\ UNCHANGED currentMessageFileIndex
          /\ tasks' = Set(tasks, t, [r EXCEPT !.pc = "nf_access", !.ret = "im_done",
                                              !.file = getCurrentMessageFile])
  /\ UNCHANGED <<now, disk, cache, lastCacheUpdate, activeReads, heap, fileQueues,
                 faults, crashed, old, written, messageProcessor>>

\* initializeFile(this.getCurrentMessageFile(), []) is done.
ImDone(t) ==
  LET r == tasks[t] IN
  /\ ~crashed /\ r.st = "run" /\ r.kind = "initializeMessageFiles" /\ r.pc = "im_done"
  /\ tasks' = Set(tasks, t, Resolve(r, <<>>))
  /\ UNCHANGED <<now, disk, cache, lastCacheUpdate, activeReads, heap, fileQueues,
                 faults, crashed, old, written, currentMessageFileIndex, messageProcessor>>

InitializeStep(t) ==
  \/ ImReaddir(t)
  \/ ImListed(t)
  \/ ImDone(t)

\* ------------------------------------------------------ MessageProcessor
\* A flushMessages that does not look at this.processing.
flushSkippedUnlocked(mp) == mp.messageQueue = <<>>

\* A flushMessages that waits for a full batch.
flushSkippedBelowBatch(mp) == mp.processing \/ Len(mp.messageQueue) < batchSize

\* if (this.processing || this.messageQueue.length === 0) return;
flushSkipped(mp) == mp.processing \/ mp.messageQueue = <<>>

\* A splice that takes the whole buffer.
spliceBatchAll(q) == q

\* this.messageQueue.splice(0, this.batchSize): what is taken, what is left.
spliceBatch(q) == SubSeq(q, 1, IF Len(q) < batchSize THEN Len(q) ELSE batchSize)
\* A slice in place of the splice: the batch stays in the buffer.
sliceRest(q) == q
\* What the splice leaves in the buffer.
spliceRest(q) == SubSeq(q, Len(spliceBatch(q)) + 1, Len(q))

\* flushMessages() up to its await, on the processor as the caller left it: nothing,
\* or the batch is taken and dataManager.createMessagesBatch(batch) is called.
flushMessages(mp) ==
  IF flushSkipped(mp)
  THEN /\ messageProcessor' = mp
       /\ UNCHANGED <<tasks, fileQueues>>
  ELSE /\ messageProcessor' = [mp EXCEPT !.processing = TRUE,
                                         !.messageQueue = spliceRest(@),
                                         !.flights = @ \cup {Len(tasks) + 1}]
       /\ Enqueue("createMessagesBatch", getCurrentMessageFile,
                  spliceBatch(mp.messageQueue))

\* A queueMessage that leaves every flush to the timer.
queueMessageNoTrigger(room) ==
  LET mp == messageProcessor
      messageData == Rec(100 + Len(mp.queued) + 1, room)
  IN
  /\ ~crashed /\ Len(mp.queued) < MaxMessages
  /\ messageProcessor' = [mp EXCEPT !.messageQueue = Append(@, messageData),
                                    !.queued = Append(@, messageData)]
  /\ UNCHANGED <<now, disk, cache, lastCacheUpdate, activeReads, heap, faults, crashed,
                 old, written, currentMessageFileIndex, tasks, fileQueues>>

\* queueMessage(messageData): push, and flush if the queue has reached batchSize.
queueMessage(room) ==
  LET mp == messageProcessor
      messageData == Rec(100 + Len(mp.queued) + 1, room)
      mp1 == [mp EXCEPT !.messageQueue = Append(@, messageData),
                        !.queued = Append(@, messageData)]
  IN
  /\ ~crashed /\ Len(mp.queued) < MaxMessages
  /\ IF Len(mp1.messageQueue) >= batchSize
     THEN flushMessages(mp1)
     ELSE messageProcessor' = mp1 /\ UNCHANGED <<tasks, fileQueues>>
  /\ UNCHANGED <<now, disk, cache, lastCacheUpdate, activeReads, heap, faults, crashed,
                 old, written, currentMessageFileIndex>>

\* The setInterval callback of startBatchProcessor.
startBatchProcessor ==
  /\ ~crashed /\ Len(messageProcessor.messageQueue) > 0
  /\ flushMessages(messageProcessor)
  /\ UNCHANGED <<now, disk, cache, lastCacheUpdate, activeReads, heap, faults, crashed,
                 old, written, currentMessageFileIndex>>

\* An await that goes on although the call has not resolved.
PersistedEarly(t) == tasks[t].st # "err"

\* await dataManager.createMessagesBatch(...) goes on when the call has resolved.
Persisted(t) == tasks[t].st = "ok"

\* A flush without the finally block: the records are emitted, the lock stays.
FlushEmitLocked(t) ==
  /\ ~crashed /\ t \in messageProcessor.flights /\ Persisted(t)
  /\ messageProcessor' = [messageProcessor EXCEPT !.emitted = @ \o tasks[t].arg,
                                                   !.flights = @ \ {t}]
  /\ UNCHANGED <<now, disk, cache, lastCacheUpdate, activeReads, heap, fileQueues, tasks,
                 faults, crashed, old, written, currentMessageFileIndex>>

\* After the await: batch.forEach emits every record in batch order; finally
\* processing = false.
FlushEmit(t) ==
  /\ ~crashed /\ t \in messageProcessor.flights /\ Persisted(t)
  /\ messageProcessor' = [messageProcessor EXCEPT !.emitted = @ \o tasks[t].arg,
                                                   !.processing = FALSE,
                                                   !.flights = @ \ {t}]
  /\ UNCHANGED <<now, disk, cache, lastCacheUpdate, activeReads, heap, fileQueues, tasks,
                 faults, crashed, old, written, currentMessageFileIndex>>

\* After the await, emit throws at the record after the first k of the batch: the
\* catch block logs the error; finally processing = false.
FlushEmitThrow(t) ==
  /\ ~crashed /\ t \in messageProcessor.flights /\ Persisted(t)
  /\ \E k \in 0..(Len(tasks[t].arg) - 1) :
       messageProcessor' = [messageProcessor EXCEPT
                              !.emitted = @ \o SubSeq(tasks[t].arg, 1, k),
                              !.processing = FALSE,
                              !.flights = @ \ {t}]
  /\ UNCHANGED <<now, disk, cache, lastCacheUpdate, activeReads, heap, fileQueues, tasks,
                 faults, crashed, old, written, currentMessageFileIndex>>

\* A catch block with no finally: the lock stays.
FlushCatchLocked(t) ==
  /\ ~crashed /\ t \in messageProcessor.flights /\ tasks[t].st = "err"
  /\ messageProcessor' = [messageProcessor EXCEPT !.flights = @ \ {t}]
  /\ UNCHANGED <<now, disk, cache, lastCacheUpdate, activeReads, heap, fileQueues, tasks,
                 faults, crashed, old, written, currentMessageFileIndex>>

\* The call rejected: the catch block logs the error; finally processing = false.
FlushCatch(t) ==
  /\ ~crashed /\ t \in messageProcessor.flights /\ tasks[t].st = "err"
  /\ messageProcessor' = [messageProcessor EXCEPT !.processing = FALSE,
                                                   !.flights = @ \ {t}]
  /\ UNCHANGED <<now, disk, cache, lastCacheUpdate, activeReads, heap, fileQueues, tasks,
                 faults, crashed, old, written, currentMessageFileIndex>>

\* ------------------------------------------------------ unqueued reads
\* findUserByUsername / findChatRoomByRoomId: readFile outside any queue.  The
\* array readFile returns is kept as the outcome of the call.
Find(kind, f) ==
  LET call == ReadFileCall([NewTask(kind, NoFile, 0, Rec(0, "")) EXCEPT !.st = "run"],
                           f, "resolve")
      ts2 == Append(tasks, [call[1] EXCEPT !.file = f])
  IN
  /\ ~crashed /\ Len(tasks) < MaxTasks
  /\ tasks' = ts2
  /\ activeReads' = call[2]
  /\ heap' = Gc(heap, cache, ts2)
  /\ UNCHANGED <<now, disk, cache, lastCacheUpdate, fileQueues, faults, crashed, old, written, currentMessageFileIndex, messageProcessor>>

findUserByUsername == Find("findUserByUsername", usersFile)
findChatRoomByRoomId == Find("findChatRoomByRoomId", chatRoomsFile)

\* ------------------------------------------------------- environment
\* A second passes.
Tick ==
  /\ ~crashed /\ now < MaxTime
  /\ now' = now + 1
  /\ UNCHANGED <<disk, cache, lastCacheUpdate, activeReads, heap, fileQueues, tasks,
                 faults, crashed, old, written, currentMessageFileIndex, messageProcessor>>

\* The process stops: nothing of it runs any more, the files stay as they are.
Crash ==
  /\ ~crashed
  /\ crashed' = TRUE
  /\ UNCHANGED <<now, disk, cache, lastCacheUpdate, activeReads, heap, fileQueues, tasks,
                 faults, old, written, currentMessageFileIndex, messageProcessor>>

\* ------------------------------------------------------------ start
\* After initializeStorage: the collection files exist and hold complete arrays
\* (records of earlier runs), nothing is cached, no call has been made.
AllFiles == Files \cup TmpFiles
OldUsers == {<<>>, <<Rec(0, "a")>>}
\* initializeMessageFiles found messages_1.json: empty, or full of messages of room
\* "r" of an earlier run.
OldMessages == {<<>>, [i \in 1..maxMessagesPerFile |-> Rec(0, "r")]}

\* The storage directory with the users u and the messages m in messages_1.json.
StartDisk(u, m) ==
  [f \in AllFiles |->
     IF f = usersFile THEN Content(u)
     ELSE IF f = chatRoomsFile THEN Content(<<>>)
     ELSE IF f = MessageFile(1) THEN Content(m)
     ELSE Absent]

\* The process over the directory d, with the calls ts under way and the message
\* file index at index.
InitFrom(d, ts, index) ==
  /\ now = 1
  /\ disk = d
  /\ currentMessageFileIndex = index
  /\ cache = [f \in Files |-> 0]
  /\ lastCacheUpdate = [f \in Files |-> 0]
  /\ activeReads = [f \in Files |-> 0]
  /\ heap = [o \in Obj |-> <<>>]
  /\ fileQueues = [f \in Files |-> 0]
  /\ tasks = ts
  /\ faults = 0
  /\ crashed = FALSE
  /\ old = [f \in Files |-> disk[f].recs]
  /\ written = [f \in Files |-> NoWrite]
  /\ messageProcessor = [messageQueue |-> <<>>, processing |-> FALSE, flights |-> {},
                         queued |-> <<>>, emitted |-> <<>>]

InitWith(u, m) == InitFrom(StartDisk(u, m), <<>>, 1)

Init == \E u \in OldUsers : InitWith(u, <<>>)
InitMsg == \E m \in OldMessages : InitWith(<<>>, m)

\* The steps of readFile and writeFile, whoever called them.
ReadStep(t) ==
  \/ RfSample(t)
  \/ RfComplete(t)
  \/ RfMissing(t)

WriteStep(t) ==
  \/ WfOpen(t)
  \/ WfWrite(t)
  \/ WfRename(t)
  \/ WfCache(t)

CreateUserStep(t) ==
  \/ CreateUserStart(t)
  \/ CreateUserCheck(t)
  \/ CreateUserPush(t)

\* Registrations, logins and the passing of time.
Next ==
  \/ \E n \in Names : CreateUser(n)
  \/ findUserByUsername
  \/ \E t \in DOMAIN tasks :
       \/ QueueSkip(t)
       \/ CreateUserStep(t)
       \/ RfBackoff(t)
       \/ ReadStep(t)
       \/ RfFail(t)
       \/ WriteStep(t)
       \/ WfFail(t)
  \/ Tick

Spec == Init /\ [][Next]_vars

\* Registrations alone.
NextQueue ==
  \/ \E n \in Names : CreateUser(n)
  \/ \E t \in DOMAIN tasks :
       \/ QueueSkip(t)
       \/ CreateUserStep(t)
       \/ ReadStep(t)
       \/ RfFail(t)
       \/ WriteStep(t)
       \/ WfFail(t)

SpecQueue == Init /\ [][NextQueue]_vars

\* Registrations and a process that may stop at any moment.
NextCrash ==
  \/ \E n \in Names : CreateUser(n)
  \/ findUserByUsername
  \/ \E t \in DOMAIN tasks :
       \/ QueueSkip(t)
       \/ CreateUserStep(t)
       \/ ReadStep(t)
       \/ RfFail(t)
       \/ WriteStep(t)
       \/ WfFail(t)
  \/ Crash

SpecCrash == Init /\ [][NextCrash]_vars

\* Messages: single sends, one batch longer than a file, one purge of a room; no
\* I/O error.
NextMsg ==
  \/ CreateMessage("r")
  \/ /\ \A t \in DOMAIN tasks : tasks[t].kind # "createMessagesBatch"
     /\ CreateMessagesBatch(Batch(Len(tasks) + 1, maxMessagesPerFile + 1, "s"))
  \/ DeleteMessagesByRoomId("r")
  \/ \E t \in DOMAIN tasks :
       \/ CreateMessageStep(t)
       \/ CreateMessagesBatchStep(t)
       \/ DeleteMessagesStep(t)
       \/ NewFileStep(t)
       \/ ReadStep(t)
       \/ WriteStep(t)

SpecMsg == InitMsg /\ [][NextMsg]_vars

\* The chat server: messages come in, the timer fires, a write may fail.
InitFlush == InitWith(<<>>, <<>>)

NextFlush ==
  \/ \E room \in Rooms : queueMessage(room)
  \/ startBatchProcessor
  \/ \E t \in DOMAIN tasks :
       \/ FlushEmit(t)
       \/ FlushCatch(t)
       \/ QueueSkip(t)
       \/ CreateMessagesBatchStep(t)
       \/ NewFileStep(t)
       \/ ReadStep(t)
       \/ WriteStep(t)
       \/ WfFail(t)

SpecFlush == InitFlush /\ [][NextFlush]_vars

\* Single sends to an empty message collection, one record more than a file takes.
InitRoll == InitWith(<<>>, <<>>)

NextRoll ==
  \/ /\ Len(tasks) < maxMessagesPerFile + 1
     /\ CreateMessage("r")
  \/ \E t \in DOMAIN tasks :
       \/ CreateMessageStep(t)
       \/ NewFileStep(t)
       \/ ReadStep(t)
       \/ WriteStep(t)
  \/ Tick

SpecRoll == InitRoll /\ [][NextRoll]_vars

\* A start over the directory of an earlier run, or over one without message
\* files, with messages sent while the discovery of the message files is under way.
InitBoot ==
  \E d \in {StartDisk(<<>>, m) : m \in OldMessages}
           \cup {[StartDisk(<<>>, <<>>) EXCEPT ![MessageFile(1)] = Absent]} :
    InitFrom(d, <<initializeMessageFiles>>, 1)

NextBoot ==
  \/ CreateMessage("r")
  \/ \E t \in DOMAIN tasks :
       \/ InitializeStep(t)
       \/ CreateMessageStep(t)
       \/ NewFileStep(t)
       \/ ReadStep(t)
       \/ WriteStep(t)

SpecBoot == InitBoot /\ [][NextBoot]_vars

\* Logins alone: reads of users.json, reads that fail, time passing.
NextCache ==
  \/ findUserByUsername
  \/ \E t \in DOMAIN tasks :
       \/ RfBackoff(t)
       \/ ReadStep(t)
       \/ RfFail(t)
  \/ Tick

SpecCache == Init /\ [][NextCache]_vars

\* A burst: every message comes in before the timer fires for the first time, and
\* no write fails.
NextBurst ==
  \/ queueMessage("r")
  \/ /\ Len(messageProcessor.queued) = MaxMessages
     /\ startBatchProcessor
  \/ \E t \in DOMAIN tasks :
       \/ FlushEmit(t)
       \/ CreateMessagesBatchStep(t)
       \/ NewFileStep(t)
       \/ ReadStep(t)
       \/ WriteStep(t)
  \/ Tick

SpecBurst == InitFlush /\ [][NextBurst]_vars

\* Queries over two message files left by an earlier run, with no writer.
Stamps == 1..3
OldSegments ==
  {[StartDisk(<<>>, <<Msg(1, k1, t1), Msg(2, k2, t2)>>)
      EXCEPT ![MessageFile(2)] = Content(<<Msg(3, k3, t3)>>)] :
     k1 \in Rooms, k2 \in Rooms, k3 \in Rooms,
     t1 \in Stamps, t2 \in Stamps, t3 \in Stamps}

InitFind == \E d \in OldSegments : InitFrom(d, <<>>, 2)

NextFind ==
  \/ /\ tasks = <<>>
     /\ \E since \in 0..2, limit \in 0..2 : findMessagesByRoomId("r", since, limit)
  \/ \E t \in DOMAIN tasks :
       \/ FindMessagesStep(t)
       \/ ReadStep(t)

SpecFind == InitFind /\ [][NextFind]_vars

\* Registrations sent one after the other, each after the answer to the one before,
\* with logins at any time; no I/O error.
Registering ==
  \E t \in DOMAIN tasks : tasks[t].kind = "createUser" /\ Live(tasks[t])

NextSignup ==
  \/ /\ ~Registering
     /\ \E n \in Names : CreateUser(n)
  \/ findUserByUsername
  \/ \E t \in DOMAIN tasks :
       \/ QueueSkip(t)
       \/ CreateUserStep(t)
       \/ RfBackoff(t)
       \/ ReadStep(t)
       \/ WriteStep(t)
  \/ Tick

SpecSignup == Init /\ [][NextSignup]_vars

\* Registrations, one by one and in batches, with no I/O error and no reader.
UserNames == UNION {[1..n -> Names] : n \in 1..MaxUsers}

NextUsers ==
  \/ \E n \in Names : CreateUser(n)
  \/ \E names \in UserNames : \E isLoadTest \in BOOLEAN :
       CreateUsersBatch(names, isLoadTest)
  \/ \E t \in DOMAIN tasks :
       \/ QueueSkip(t)
       \/ CreateUserStep(t)
       \/ CreateUsersBatchStep(t)
       \/ ReadStep(t)
       \/ WriteStep(t)

SpecUsers == Init /\ [][NextUsers]_vars

\* Members of room "r" invite users; no I/O error.
Invited == {<<"x">>, <<"y">>}
\* Invite requests in one behaviour.
MaxInvites == 2

InitInvite ==
  InitFrom([StartDisk(<<>>, <<>>) EXCEPT
              ![chatRoomsFile] = Content(<<Room(0, "r", <<"u">>)>>)], <<>>, 1)

NextInvite ==
  \/ /\ Cardinality({t \in DOMAIN tasks : tasks[t].kind = "invite"}) < MaxInvites
     /\ \E username \in {"u", "x"} : \E participants \in Invited :
          Invite("r", username, participants)
  \/ \E t \in DOMAIN tasks :
       \/ InviteStep(t)
       \/ UpdateChatRoomStep(t)
       \/ ReadStep(t)
       \/ WriteStep(t)

SpecInvite == InitInvite /\ [][NextInvite]_vars

\* The chat server with no I/O error: the timer keeps firing and every I/O that was
\* started completes.
IoStep(t) ==
  /\ t \in DOMAIN tasks
  /\ \/ CreateMessagesBatchStep(t)
     \/ NewFileStep(t)
     \/ ReadStep(t)
     \/ WriteStep(t)

Emit(t) == t \in DOMAIN tasks /\ FlushEmit(t)

NextLive ==
  \/ queueMessage("r")
  \/ startBatchProcessor
  \/ \E t \in TaskIds : Emit(t) \/ IoStep(t)

SpecLive ==
  /\ InitFlush /\ [][NextLive]_vars
  /\ WF_vars(startBatchProcessor)
  /\ \A t \in TaskIds : WF_vars(Emit(t)) /\ WF_vars(IoStep(t))

\* The chat server where a write may fail and an emit may throw; what was started
\* goes on.
FlushStep(t) ==
  /\ t \in DOMAIN tasks
  /\ \/ FlushEmit(t)
     \/ FlushCatch(t)
     \/ QueueSkip(t)
     \/ CreateMessagesBatchStep(t)
     \/ NewFileStep(t)
     \/ ReadStep(t)
     \/ WriteStep(t)

NextUnlock ==
  \/ queueMessage("r")
  \/ startBatchProcessor
  \/ \E t \in TaskIds : FlushStep(t)
  \/ \E t \in DOMAIN tasks : FlushEmitThrow(t) \/ WfFail(t)

SpecUnlock ==
  InitFlush /\ [][NextUnlock]_vars /\ WF_vars(\E t \in TaskIds : FlushStep(t))

\* One append, of one record or of a batch, to a first message file that holds any
\* number of records up to its capacity; no I/O error.
InitAppend ==
  \E c \in 0..maxMessagesPerFile : InitWith(<<>>, [i \in 1..c |-> Rec(0 - i, "r")])

NextAppend ==
  \/ /\ tasks = <<>>
     /\ \/ CreateMessage("s")
        \/ \E k \in 1..MaxMessages : CreateMessagesBatch(Batch(1, k, "s"))
  \/ \E t \in DOMAIN tasks :
       \/ CreateMessageStep(t)
       \/ CreateMessagesBatchStep(t)
       \/ NewFileStep(t)
       \/ ReadStep(t)
       \/ WriteStep(t)

SpecAppend == InitAppend /\ [][NextAppend]_vars

\* Rooms are created, one by one and in batches; no I/O error.
NextRooms ==
  \/ \E n \in Names : CreateChatRoom(n)
  \/ \E n, m \in Names : CreateChatRoomsBatch(<<n, m>>)
  \/ \E t \in DOMAIN tasks :
       \/ CreateChatRoomStep(t)
       \/ CreateChatRoomsBatchStep(t)
       \/ ReadStep(t)
       \/ WriteStep(t)

SpecRooms == Init /\ [][NextRooms]_vars

\* A room is deleted: its messages were sent before, messages of another room are
\* sent at any time; no I/O error.
InitDelete ==
  \E m \in OldMessages :
    InitFrom([StartDisk(<<>>, m) EXCEPT ![chatRoomsFile] = Content(<<Rec(0, "r")>>)],
             <<>>, 1)

Sending(room) ==
  \E t \in DOMAIN tasks :
    tasks[t].kind = "createMessage" /\ tasks[t].arg.key = room /\ Live(tasks[t])

NextDelete ==
  \/ CreateMessage("s")
  \/ /\ \A t \in DOMAIN tasks : tasks[t].kind # "deleteChatRoom"
     /\ CreateMessage("r")
  \/ /\ ~Sending("r")
     /\ deleteChatRoom("r")
  \/ \E t \in DOMAIN tasks :
       \/ DeleteChatRoomStep(t)
       \/ DeleteMessagesStep(t)
       \/ CreateMessageStep(t)
       \/ NewFileStep(t)
       \/ ReadStep(t)
       \/ WriteStep(t)

SpecDelete == InitDelete /\ [][NextDelete]_vars

\* Messages of one room are sent and another room is deleted; a write may fail.
NextCross ==
  \/ CreateMessage("s")
  \/ deleteChatRoom("r")
  \/ \E t \in DOMAIN tasks :
       \/ QueueSkip(t)
       \/ DeleteChatRoomStep(t)
       \/ DeleteMessagesStep(t)
       \/ CreateMessageStep(t)
       \/ NewFileStep(t)
       \/ ReadStep(t)
       \/ WriteStep(t)
       \/ WfFail(t)

SpecCross == InitDelete /\ [][NextCross]_vars

\* A room is deleted while a room is created and a message is sent; an I/O call may
\* fail, and every I/O call that was started ends.
Proceed(t) ==
  /\ t \in DOMAIN tasks
  /\ \/ QueueSkip(t)
     \/ DeleteChatRoomStep(t)
     \/ DeleteMessagesStep(t)
     \/ CreateChatRoomStep(t)
     \/ CreateMessageStep(t)
     \/ NewFileStep(t)
     \/ ReadStep(t)
     \/ WriteStep(t)

Called(kind) == \E t \in DOMAIN tasks : tasks[t].kind = kind

NextSettle ==
  \/ ~Called("createMessage") /\ CreateMessage("s")
  \/ ~Called("createChatRoom") /\ CreateChatRoom("a")
  \/ deleteChatRoom("r")
  \/ \E t \in TaskIds : Proceed(t)
  \/ \E t \in DOMAIN tasks : WfFail(t)

\* The event loop runs a continuation that is ready as long as there is one.
SpecSettle ==
  InitDelete /\ [][NextSettle]_vars /\ WF_vars(\E t \in TaskIds : Proceed(t))

\* ============================================================ claims
Queued(t) == tasks[t].key # NoFile
\* The body of the operation of task t has started.
Started(t) == tasks[t].st \in {"run", "ok"} \/ (tasks[t].st = "err" /\ tasks[t].err = t)
HasSettled(t) == tasks[t].st \in {"ok", "err"}
Quiescent == \A t \in DOMAIN tasks : HasSettled(t)

\* C1: for one key, the bodies of the queued operations start in the order of the
\* calls, and the body of a later call starts only once every earlier call for the
\* key has settled: no two bodies for one key run at the same time.
C1_SerialPerKey ==
  \A i, j \in DOMAIN tasks :
    (i < j /\ Queued(i) /\ tasks[i].key = tasks[j].key /\ Started(j)) => HasSettled(i)

\* C1's case: a second operation of a key is running after the first has resolved.
C1_Witness ==
  \E i, j \in DOMAIN tasks :
    /\ i < j /\ Queued(i) /\ tasks[i].key = tasks[j].key
    /\ tasks[i].st = "ok" /\ tasks[j].st = "run"

\* The createUser calls whose username nobody else uses: not a record the file held
\* at startup, not another call.
UniqueAppend(t) ==
  /\ tasks[t].kind = "createUser"
  /\ \A i \in DOMAIN old[usersFile] : old[usersFile][i].key # tasks[t].arg.key
  /\ \A u \in DOMAIN tasks :
       (u # t /\ tasks[u].kind = "createUser") => tasks[u].arg.key # tasks[t].arg.key
\* The records of those among the first n calls, in call order.
RECURSIVE UniqueArgs(_)
UniqueArgs(n) ==
  IF n = 0 THEN <<>>
  ELSE IF UniqueAppend(n) THEN Append(UniqueArgs(n - 1), tasks[n].arg)
  ELSE UniqueArgs(n - 1)

\* C2: once the queued appends of uniquely named records have all settled, and no
\* I/O call has failed, the collection file holds its previous content followed by
\* exactly those records in call order.
C2_AppendsAllKept ==
  (Quiescent /\ faults = 0 /\ \E t \in DOMAIN tasks : UniqueAppend(t))
    => \E k \in 0..Len(disk[usersFile].recs) :
         /\ SubSeq(disk[usersFile].recs, 1, k) = old[usersFile]
         /\ \A i \in 1..Len(UniqueArgs(Len(tasks))) :
              /\ k + i <= Len(disk[usersFile].recs)
              /\ disk[usersFile].recs[k + i] = UniqueArgs(Len(tasks))[i]

\* C3: an error reaches only the caller of the operation that threw it: a rejected
\* call is one whose own body threw, and the next call for the key runs its body.
C3_ErrorStaysWithCaller ==
  \A t \in DOMAIN tasks : tasks[t].st = "err" => tasks[t].err = t

\* A writeFile on file f is between its call and its return.
Writing(f) ==
  \E t \in DOMAIN tasks :
    tasks[t].st = "run" /\ tasks[t].file = f
      /\ tasks[t].pc \in {"wf_open", "wf_write", "wf_rename", "wf_cache"}

\* C5: whenever the process stops, a target file holds a complete array: a change
\* of a target file replaces its content, in one step, by the complete content a
\* writeFile call serialized; no reader gets a partly written file.
C5_AtomicWrite ==
  /\ [](\A f \in Files : disk[f].st # "partial")
  /\ [](\A t \in DOMAIN tasks : tasks[t].got.st # "partial")
  /\ [][\A f \in Files :
          \/ disk'[f] = disk[f]
          \/ \E t \in DOMAIN tasks :
               /\ tasks[t].pc = "wf_rename" /\ tasks[t].file = f
               /\ disk'[f] = Content(tasks[t].out)]_vars

\* C5's case: the process has stopped while the temporary file was partly written.
C5_Witness ==
  /\ crashed
  /\ \E t \in DOMAIN tasks :
       /\ tasks[t].pc = "wf_write"
       /\ disk[tempFile(t, tasks[t].file)] = Partial
       /\ disk[tasks[t].file].st = "ok"

\* C6: after a writeFile(f, C) has resolved, a readFile(f) that is called before the
\* entry it left is cacheTimeout old, and before a later writeFile on f is called,
\* returns C, whatever reads were in flight.
C6_ReadAfterWrite ==
  \A f \in Files :
    (written[f].at # 0 /\ now - written[f].at < cacheTimeout /\ ~Writing(f))
      => LET call == ReadFileCall([NewTask("readFile", NoFile, 0, Rec(0, ""))
                                     EXCEPT !.st = "run"], f, "resolve")[1]
         IN call.st = "ok" /\ call.out = written[f].recs

\* The message file on which task t is inside a read-modify-write cycle (from the
\* readFile whose array it will write, to the end of writeFile), or NoFile.
RmwFile(t) ==
  LET r == tasks[t] IN
  IF r.st = "run" /\ r.file \in MessageFiles
     /\ \/ r.pc \in {"cm_push", "cb_loop", "pf_filter",
                      "wf_open", "wf_write", "wf_rename", "wf_cache"}
        \/ /\ r.pc \in {"rf_backoff", "rf_reading", "rf_sampled"}
           /\ r.ret \in {"cm_push", "cb_loop", "pf_filter"}
  THEN r.file ELSE NoFile

\* C4: a writeFile to a message file runs in an operation queued under that file,
\* and no two read-modify-write cycles on one message file overlap.
C4_WritesUnderOwnQueue ==
  /\ \A t \in DOMAIN tasks :
       (RmwFile(t) # NoFile /\ tasks[t].pc \in {"wf_open", "wf_write", "wf_rename"})
         => tasks[t].key = tasks[t].file
  /\ \A t, u \in DOMAIN tasks :
       (t # u /\ RmwFile(t) # NoFile) => RmwFile(t) # RmwFile(u)

\* C7: a record given to queueMessage is not dropped because a flush failed: it is
\* in the buffer, in a batch being persisted, or emitted.
Elems(q) == {q[i] : i \in DOMAIN q}
InFlight == UNION {Elems(tasks[t].arg) : t \in messageProcessor.flights}
C7_FailedBatchRequeued ==
  \A i \in DOMAIN messageProcessor.queued :
    messageProcessor.queued[i] \in
      Elems(messageProcessor.messageQueue) \cup InFlight \cup Elems(messageProcessor.emitted)

\* C8: a record is emitted only after the createMessagesBatch call that holds it has
\* resolved, and records of one room are emitted in the order queueMessage got them.
C8_EmitAfterPersistInOrder ==
  LET emitted == messageProcessor.emitted IN
  /\ \A i \in DOMAIN emitted :
       \E t \in DOMAIN tasks : /\ tasks[t].kind = "createMessagesBatch"
                               /\ tasks[t].st = "ok"
                               /\ emitted[i] \in Elems(tasks[t].arg)
  /\ \A i, j \in DOMAIN emitted :
       (i < j /\ emitted[i].key = emitted[j].key) => emitted[i].id < emitted[j].id

\* Records of one room have been emitted from two batches.
C8_Witness ==
  LET emitted == messageProcessor.emitted IN
  \E i, j \in DOMAIN emitted :
    /\ i < j /\ emitted[i].key = emitted[j].key
    /\ \E t \in DOMAIN tasks : /\ emitted[i] \in Elems(tasks[t].arg)
                               /\ emitted[j] \notin Elems(tasks[t].arg)

\* C9: at most one flush is in flight, and while one is, no step takes records from
\* the buffer or starts a persistence call.
C9_OneFlushInFlight ==
  /\ [](Cardinality(messageProcessor.flights) <= 1)
  /\ [](messageProcessor.processing <=> messageProcessor.flights # {})
  /\ [][messageProcessor.processing =>
          /\ messageProcessor'.flights \subseteq messageProcessor.flights
          /\ Len(messageProcessor'.messageQueue) >= Len(messageProcessor.messageQueue)
          /\ SubSeq(messageProcessor'.messageQueue, 1, Len(messageProcessor.messageQueue))
               = messageProcessor.messageQueue
          /\ (Len(tasks') > Len(tasks) => tasks'[Len(tasks')].kind # "createMessagesBatch")]_vars

\* The size trigger called flushMessages during a flush, and nothing was taken.
C9_Witness ==
  /\ messageProcessor.processing
  /\ Len(messageProcessor.messageQueue) >= batchSize

\* C10: no message file holds more than maxMessagesPerFile records.
C10_SegmentCapacity ==
  \A f \in MessageFiles : Len(disk[f].recs) <= maxMessagesPerFile

\* C11: maxMessagesPerFile + 1 single sends to an empty collection leave the first
\* file with exactly maxMessagesPerFile records and the second with exactly one, in
\* call order.
AllSent(n) ==
  /\ Len(tasks) = n
  /\ \A t \in DOMAIN tasks : tasks[t].kind = "createMessage" /\ tasks[t].st = "ok"
C11_RolloverAtCapacity ==
  AllSent(maxMessagesPerFile + 1) =>
    /\ disk[MessageFile(1)].recs = [i \in 1..maxMessagesPerFile |-> Rec(i, "r")]
    /\ disk[MessageFile(2)].recs = <<Rec(maxMessagesPerFile + 1, "r")>>

\* All the sends have resolved and the second file exists.
C11_Witness ==
  /\ AllSent(maxMessagesPerFile + 1)
  /\ disk[MessageFile(2)].st = "ok"

\* C12: the current message file index never decreases.
C12_IndexMonotonic ==
  [][currentMessageFileIndex' >= currentMessageFileIndex]_vars

\* What a readFile(f) called in the current state does up to its first await.
Probe(f) ==
  ReadFileCall([NewTask("readFile", NoFile, 0, Rec(0, "")) EXCEPT !.st = "run"],
               f, "returned")[1]

\* C13: readFile returns at once with a cache entry older than cacheTimeout only
\* when the read is throttled (the other fallback is the failed physical read).
C13_NoStaleCacheServed ==
  \A f \in Files :
    (Probe(f).pc = "returned" /\ now - lastCacheUpdate[f] > cacheTimeout)
      => activeReads[f] >= maxConcurrentReads

\* An entry is older than cacheTimeout and readFile starts a physical read.
C13_Witness ==
  \E f \in Files :
    /\ cache[f] # 0 /\ now - lastCacheUpdate[f] > cacheTimeout
    /\ Probe(f).pc = "rf_reading"

\* C14: a readFile called right after a physical read of the file has completed
\* (less than cacheTimeout later) starts no physical read.
C14_SecondReadFromCache ==
  [][\A t \in DOMAIN tasks : \A f \in Files :
       (/\ tasks[t].pc = "rf_sampled" /\ tasks[t].got.st = "ok" /\ tasks[t].file = f
        /\ tasks'[t].pc # "rf_sampled" /\ faults' = faults)
         => Probe(f)'.pc = "returned"]_vars

\* C15: a physical read that fails does not reject the caller of readFile: it gets
\* the cached array of the file if there is one, otherwise an empty array.
C15_FailedReadFallsBack ==
  [][\A t \in DOMAIN tasks : \A f \in Files :
       (/\ tasks[t].pc = "rf_sampled" /\ tasks[t].file = f
        /\ tasks'[t].pc # "rf_sampled"
        /\ (tasks[t].got.st # "ok" \/ faults' # faults))
         => /\ tasks'[t].st # "err"
            /\ (IF tasks[t].ret = "resolve" THEN tasks'[t].out
                                            ELSE heap'[tasks'[t].data])
                 = (IF cache[f] # 0 THEN heap[cache[f]] ELSE <<>>)]_vars

\* A read of a file that holds a record failed with nothing cached: the caller got
\* an empty array.
C15_Witness ==
  /\ faults > 0 /\ old[usersFile] # <<>>
  /\ \E t \in DOMAIN tasks : tasks[t].st = "ok" /\ tasks[t].out = <<>>

\* C16: a queueMessage that makes the buffer reach batchSize while no flush is in
\* flight starts a flush in the same step: the first batchSize records leave the
\* buffer and createMessagesBatch is called with them.
C16_SizeTriggerFlushesAtOnce ==
  [][LET mp == messageProcessor
         q1 == Append(mp.messageQueue, messageProcessor'.queued[Len(mp.queued) + 1])
     IN
     (/\ ~mp.processing
      /\ Len(messageProcessor'.queued) > Len(mp.queued)
      /\ Len(mp.messageQueue) + 1 >= batchSize)
       => /\ messageProcessor'.processing
          /\ Len(tasks') = Len(tasks) + 1
          /\ tasks'[Len(tasks')].kind = "createMessagesBatch"
          /\ tasks'[Len(tasks')].arg = SubSeq(q1, 1, batchSize)
          /\ messageProcessor'.messageQueue = SubSeq(q1, batchSize + 1, Len(q1))]_vars

\* The first batchSize records were taken by a flush no timer tick could have
\* started.
C16_Witness ==
  /\ Len(messageProcessor.queued) = batchSize
  /\ messageProcessor.messageQueue = <<>>
  /\ \E t \in messageProcessor.flights : tasks[t].arg = messageProcessor.queued

\* C17: with batchSize - 1 records in the buffer and no flush in flight, a timer
\* tick can start a flush; the step that starts it takes exactly those records, in
\* order, in one call; and with an empty buffer no flush is started.
C17_TimerFlushesPartialBatch ==
  /\ [](LET mp == messageProcessor IN
        (~mp.processing /\ Len(mp.messageQueue) = batchSize - 1 /\ ~crashed)
          => ENABLED (startBatchProcessor /\ messageProcessor'.processing))
  /\ [][LET mp == messageProcessor IN
        (/\ ~mp.processing /\ Len(mp.messageQueue) = batchSize - 1
         /\ messageProcessor'.queued = mp.queued
         /\ messageProcessor' # mp)
          => /\ messageProcessor'.messageQueue = <<>>
             /\ Len(tasks') = Len(tasks) + 1
             /\ tasks'[Len(tasks')].kind = "createMessagesBatch"
             /\ tasks'[Len(tasks')].arg = mp.messageQueue
             /\ messageProcessor'.flights = {Len(tasks')}]_vars
  /\ [][(messageProcessor.messageQueue = <<>>
         /\ messageProcessor'.queued = messageProcessor.queued)
          => /\ Len(tasks') = Len(tasks)
             /\ messageProcessor'.flights \subseteq messageProcessor.flights]_vars

\* The timer has flushed batchSize - 1 records, the only ones given so far.
C17_Witness ==
  /\ Len(messageProcessor.queued) = batchSize - 1
  /\ messageProcessor.messageQueue = <<>>
  /\ \E t \in messageProcessor.flights : tasks[t].arg = messageProcessor.queued

\* C18: after a burst of MaxMessages records of one room, with no failure: the
\* flushes took batchSize records each and the last one the remainder, batch after
\* batch in the order of queueMessage; every record has been emitted in that order;
\* and a batch shorter than batchSize is started by the timer.
BurstDone ==
  /\ Len(messageProcessor.queued) = MaxMessages
  /\ messageProcessor.messageQueue = <<>>
  /\ messageProcessor.flights = {}
BatchesNeeded == (MaxMessages + batchSize - 1) \div batchSize
C18_BurstFlushedInBatches ==
  /\ [](BurstDone =>
          /\ Len(tasks) = BatchesNeeded
          /\ \A t \in DOMAIN tasks :
               tasks[t].arg = SubSeq(messageProcessor.queued, (t - 1) * batchSize + 1,
                                     IF t * batchSize < MaxMessages THEN t * batchSize
                                                                    ELSE MaxMessages)
          /\ messageProcessor.emitted = messageProcessor.queued)
  /\ [][(Len(tasks') > Len(tasks) /\ Len(tasks'[Len(tasks')].arg) < batchSize)
          => messageProcessor'.queued = messageProcessor.queued]_vars

\* The burst has been flushed and emitted, the last batch being a short one.
C18_Witness ==
  /\ BurstDone
  /\ messageProcessor.emitted = messageProcessor.queued
  /\ Len(tasks[Len(tasks)].arg) < batchSize

\* C19: findMessagesByRoomId returns exactly the messages of the room in all the
\* message files that are later than since (if given), by ascending timestamp, cut
\* to the earliest `limit` of them (if given).
Stored == UNION {Elems(disk[f].recs) : f \in MessageFiles}
Wanted(options) ==
  {m \in Stored : m.key = options.room /\ (options.since # 0 => m.ts > options.since)}
HasRoom(d, room) ==
  \/ \E i \in DOMAIN d[chatRoomsFile].recs : d[chatRoomsFile].recs[i].key = room
  \/ \E f \in MessageFiles : \E i \in DOMAIN d[f].recs : d[f].recs[i].key = room

\* C20: at the step that resolves deleteChatRoom(r), the chat rooms file holds no
\* room r and no message file holds a message of room r, while only messages of
\* other rooms are being sent.
C20_DeletedRoomPurged ==
  [][\A t \in DOMAIN tasks :
       (tasks[t].kind = "deleteChatRoom" /\ tasks[t].st = "run" /\ tasks'[t].st = "ok")
         => ~HasRoom(disk', tasks[t].arg)]_vars

\* The call that threw the error task t is rejected with, and its message.
Message(t) == tasks[tasks[t].err].msg

\* The user name of createUser call t was in the collection when the call was made:
\* what the last registration that resolved before it wrote holds it, or, if there
\* is none, the file of the earlier run does.  (For callers that send a registration
\* after the answer to the one before.)
LastRegistered(t) ==
  {u \in 1..(t - 1) : /\ tasks[u].kind = "createUser" /\ tasks[u].st = "ok"
                      /\ \A v \in (u + 1)..(t - 1) :
                           ~(tasks[v].kind = "createUser" /\ tasks[v].st = "ok")}
PresentAtCall(t) ==
  IF LastRegistered(t) = {}
  THEN \E i \in DOMAIN old[usersFile] : old[usersFile][i].key = tasks[t].arg.key
  ELSE \E u \in LastRegistered(t) :
         \E i \in DOMAIN tasks[u].out : tasks[u].out[i].key = tasks[t].arg.key

\* C21: a createUser whose username is in the users collection when it is called is
\* rejected with 'Username already exists', and the step that rejects it changes
\* neither the users file nor its cache entry.
C21_DuplicateUserRejected ==
  /\ [](\A t \in DOMAIN tasks :
          (tasks[t].kind = "createUser" /\ ~Live(tasks[t]) /\ PresentAtCall(t))
            => (tasks[t].st = "err" /\ Message(t) = "Username already exists"))
  /\ [][\A t \in DOMAIN tasks :
          (tasks[t].kind = "createUser" /\ tasks[t].st = "run" /\ tasks'[t].st = "err")
            => /\ disk'[usersFile] = disk[usersFile]
               /\ cache'[usersFile] = cache[usersFile]
               /\ cache[usersFile] # 0 => heap'[cache[usersFile]] = heap[cache[usersFile]]]_vars

\* C22: the rooms collection never holds two rooms with the same roomId (a
\* createChatRoom with a roomId that exists is rejected and adds nothing).
C22_RoomIdsUnique ==
  \A i, j \in DOMAIN disk[chatRoomsFile].recs :
    disk[chatRoomsFile].recs[i].key = disk[chatRoomsFile].recs[j].key => i = j

\* C23: an operation is chained only to operations of its own key, and an operation
\* that is rejected with the error of another call is rejected with the error of a
\* call submitted under its own key: a failure under one key fails or skips nothing
\* under another key.
C23_KeysIndependent ==
  \A t \in DOMAIN tasks :
    /\ tasks[t].pred # 0 => tasks[tasks[t].pred].key = tasks[t].key
    /\ (tasks[t].st = "err" /\ tasks[t].err # t) => tasks[tasks[t].err].key = tasks[t].key

\* The i-th record accepted by queueMessage is in a message file and was emitted.
Delivered(i) ==
  LET message == messageProcessor.queued[i] IN
  /\ \E f \in MessageFiles : \E k \in DOMAIN disk[f].recs : disk[f].recs[k] = message
  /\ \E k \in DOMAIN messageProcessor.emitted : messageProcessor.emitted[k] = message

Reading(f) ==
  {t \in DOMAIN tasks : /\ tasks[t].st = "run" /\ tasks[t].file = f
                        /\ tasks[t].pc \in {"rf_reading", "rf_sampled"}}

\* C25: at no time are more than maxConcurrentReads physical reads of one file in
\* flight.
C25_ReadsThrottled ==
  \A f \in Files : Cardinality(Reading(f)) <= maxConcurrentReads

\* The one append of a behaviour has resolved; the records it was called with; the
\* records the current file held before it.
Appended == Len(tasks) = 1 /\ tasks[1].st = "ok"
Incoming == IF tasks[1].kind = "createMessage" THEN <<tasks[1].arg>> ELSE tasks[1].arg
Before == old[MessageFile(1)]

\* C26 as stated: the append rolls over exactly when c + k >= maxMessagesPerFile, and
\* then the file that was current receives none of the incoming records.
C26_RolloverWhenSumReachesCap ==
  Appended =>
    IF Len(Before) + Len(Incoming) >= maxMessagesPerFile
    THEN currentMessageFileIndex > 1 /\ disk[MessageFile(1)].recs = Before
    ELSE currentMessageFileIndex = 1

\* C26, amended: the incoming records first fill the current file up to
\* maxMessagesPerFile, and the append rolls over exactly when records are left then,
\* that is when c + k > maxMessagesPerFile; the file that was current ends with
\* min(c + k, maxMessagesPerFile) records, the records it held followed by the first
\* incoming ones.
C26_RolloverWhenFileFull ==
  Appended =>
    LET c == Len(Before)
        k == Len(Incoming)
        fits == IF c + k <= maxMessagesPerFile THEN k ELSE maxMessagesPerFile - c
    IN /\ currentMessageFileIndex > 1 <=> c + k > maxMessagesPerFile
       /\ disk[MessageFile(1)].recs = Before \o SubSeq(Incoming, 1, fits)
       /\ currentMessageFileIndex > 1 => disk[MessageFile(2)].recs # <<>>

\* An append that put a part of its records into the current file, which was neither
\* empty nor full, and rolled over with the rest.
C26_Witness ==
  /\ Appended
  /\ Before # <<>> /\ Len(Before) < maxMessagesPerFile
  /\ Len(Before) + Len(Incoming) > maxMessagesPerFile
  /\ Len(disk[MessageFile(1)].recs) = maxMessagesPerFile
  /\ disk[MessageFile(2)].st = "ok"

\* The message files from index i on, one after the other.
RECURSIVE Segments(_)
Segments(i) ==
  IF i > MaxIndex THEN <<>> ELSE disk[MessageFile(i)].recs \o Segments(i + 1)

\* No room is being purged.
NoDeletion == \A t \in DOMAIN tasks : tasks[t].kind \notin PurgeKinds \cup {"purgeFile"}

\* What the message files held before any call, followed by the batch in one piece;
\* before and after the batch there may be records of single sends.
Single(message) ==
  \E t \in DOMAIN tasks : tasks[t].kind = "createMessage" /\ tasks[t].arg = message
Holds(all, batch) ==
  /\ Len(all) >= Len(Before) + Len(batch)
  /\ SubSeq(all, 1, Len(Before)) = Before
  /\ \E n \in Len(Before)..(Len(all) - Len(batch)) :
       /\ SubSeq(all, n + 1, n + Len(batch)) = batch
       /\ \A i \in ((Len(Before) + 1)..n) \cup ((n + Len(batch) + 1)..Len(all)) :
            Single(all[i])

\* C27: when a createMessagesBatch resolves (no deletion, no I/O failure), the
\* message files in index order hold what they held before the call followed by the
\* batch in input order, every file but the last holds exactly maxMessagesPerFile
\* records, and the call returns the records of the batch in input order.
C27_BatchAppendedInOrder ==
  [][\A t \in DOMAIN tasks :
       (/\ tasks[t].kind = "createMessagesBatch"
        /\ tasks[t].st = "run" /\ tasks'[t].st = "ok" /\ NoDeletion)
         => /\ Holds(Segments(1), tasks[t].arg)'
            /\ \A i \in 1..(currentMessageFileIndex' - 1) :
                 Len(disk'[MessageFile(i)].recs) = maxMessagesPerFile
            /\ tasks'[t].out = tasks[t].arg]_vars

\* The highest index of a message file in the directory d (0: there is none).
Highest(d) ==
  IF \A i \in 1..MaxIndex : d[MessageFile(i)].st = "absent" THEN 0
  ELSE CHOOSE i \in 1..MaxIndex :
         /\ d[MessageFile(i)].st # "absent"
         /\ \A j \in (i + 1)..MaxIndex : d[MessageFile(j)].st = "absent"

\* C28: when initializeMessageFiles completes, the current index is the highest
\* index of an existing message file; if there was none, messages_1.json has been
\* created and is the current file.
C28_DiscoveryResumesAtHighest ==
  [][\A t \in DOMAIN tasks :
       (/\ tasks[t].kind = "initializeMessageFiles"
        /\ tasks[t].st = "run" /\ tasks'[t].st = "ok")
         => /\ Highest(disk') > 0
            /\ currentMessageFileIndex' = Highest(disk')]_vars

\* C29: a createUser is rejected with 'Username already exists' only if its username
\* was in the users collection when the call was made; a createUser of an absent
\* username is not rejected so, whatever the outcome of the calls before it.
C29_RejectedOnlyIfPresent ==
  \A t \in DOMAIN tasks :
    (/\ tasks[t].kind = "createUser"
     /\ tasks[t].st = "err" /\ Message(t) = "Username already exists")
      => PresentAtCall(t)

\* C30: with no I/O failure, whatever the interleaving of registrations with reads
\* that go around the queue, the record of every createUser that resolved is in the
\* users file, also after the appends that came later.
C30_ResolvedAppendsKept ==
  \A t \in DOMAIN tasks :
    (tasks[t].kind = "createUser" /\ tasks[t].st = "ok")
      => \E i \in DOMAIN disk[usersFile].recs : disk[usersFile].recs[i] = tasks[t].arg

\* C31: a physical read that fails inside a mutating operation destroys no persisted
\* record: every record the users file held before is still in the file, whether or
\* not the file had a cache entry.
C31_FailedReadKeepsRecords ==
  \A i \in DOMAIN old[usersFile] :
    \E j \in DOMAIN disk[usersFile].recs : disk[usersFile].recs[j] = old[usersFile][i]

\* The createUser call u was rejected because its own writeFile failed.
WriteFailed(u) ==
  /\ tasks[u].kind = "createUser" /\ tasks[u].st = "err"
  /\ tasks[u].err = u /\ tasks[u].msg = ""

\* C32: after a createUser whose writeFile failed, the collection that is observed
\* is unchanged: a findUserByUsername that returns after the rejection does not get
\* the record whose write failed.
C32_FailedWriteNotObserved ==
  [][\A u \in DOMAIN tasks : \A t \in DOMAIN tasks' :
       (/\ WriteFailed(u)
        /\ tasks'[t].kind = "findUserByUsername" /\ tasks'[t].st = "ok"
        /\ IF t \in DOMAIN tasks THEN tasks[t].st # "ok" ELSE TRUE)
         => \A i \in DOMAIN tasks'[t].out : tasks'[t].out[i] # tasks[u].arg]_vars

\* C33: after any sequence of createUser and createUsersBatch operations, no two
\* records of the users file have the same username.
C33_UsernamesUnique ==
  \A i, j \in DOMAIN disk[usersFile].recs :
    disk[usersFile].recs[i].key = disk[usersFile].recs[j].key => i = j

\* The invite request t was answered with success.
Invitation(t) ==
  /\ tasks[t].kind = "invite" /\ tasks[t].st = "ok"
  /\ tasks[t].msg = "Users invited successfully"

\* C34: once the invite requests on a room have completed, the participants of the
\* room in the file include every participant of every request that was answered
\* with success.
C34_InvitesAllTakeEffect ==
  (\A t \in DOMAIN tasks : ~Live(tasks[t]))
    => \A t \in DOMAIN tasks :
         Invitation(t)
           => LET chatRooms == disk[chatRoomsFile].recs
                  chatRoom == chatRooms[findIndex(chatRooms, tasks[t].arg.key)]
              IN \A i \in DOMAIN tasks[t].arg.participants :
                   Includes(chatRoom.participants, tasks[t].arg.participants[i])

\* C35: deleteMessagesByRoomId(r) removes only messages of room r: when the purge
\* replaces a message file, every message of another room that was in the file,
\* persisted before the purge or by an append running along with it, is in the
\* file that replaces it.
C35_PurgeKeepsOtherRooms ==
  [][\A t \in DOMAIN tasks :
       (tasks[t].kind = "purgeFile" /\ tasks[t].pc = "wf_rename"
        /\ tasks'[t].pc = "wf_cache")
         => LET f == tasks[t].file IN
            \A i \in DOMAIN disk[f].recs :
              disk[f].recs[i].key # tasks[t].arg
                => \E j \in DOMAIN disk'[f].recs : disk'[f].recs[j] = disk[f].recs[i]]_vars

\* C36: if every file-system call ends, every promise returned by
\* queueFileOperation eventually settles; deleteChatRoom, which awaits operations
\* queued on the message files while it holds the queue of the rooms file, completes.
\* (A promise stays once it is made and stays settled: each one settles if and only
\* if, again and again, all the promises made so far are settled.)
C36_QueuedPromisesSettle ==
  []<>(\A t \in DOMAIN tasks : Queued(t) => HasSettled(t))

\* deleteChatRoom has completed after the operations it queued on two message files.
C36_Witness ==
  \E t \in DOMAIN tasks :
    /\ tasks[t].kind = "deleteChatRoom" /\ tasks[t].st = "ok"
    /\ Cardinality({u \in DOMAIN tasks : tasks[u].kind = "purgeFile"}) = 2

\* C37: the flush lock is never held forever: whenever processing is true it is
\* false again later, whether the flush persisted its batch, failed to, or threw
\* while emitting.
C37_FlushLockReleased ==
  messageProcessor.processing ~> ~messageProcessor.processing

\* The lock is free after a flush whose persistence failed and after a flush whose
\* emit threw, and records are still buffered.
C37_Witness ==
  /\ ~messageProcessor.processing /\ messageProcessor.messageQueue # <<>>
  /\ \E t \in DOMAIN tasks : tasks[t].kind = "createMessagesBatch" /\ tasks[t].st = "err"
  /\ \E t \in DOMAIN tasks :
       /\ tasks[t].kind = "createMessagesBatch" /\ tasks[t].st = "ok"
       /\ t \notin messageProcessor.flights
       /\ \E i \in DOMAIN tasks[t].arg :
            tasks[t].arg[i] \notin Elems(messageProcessor.emitted)

\* How many times the record m occurs in the sequence q.
Times(q, m) == Cardinality({i \in DOMAIN q : q[i] = m})

\* How many times the record m was passed to createMessagesBatch.
Passed(m) ==
  LET flushes == {t \in DOMAIN tasks : tasks[t].kind = "createMessagesBatch"}
      RECURSIVE Sum(_)
      Sum(ts) == IF ts = {} THEN 0
                 ELSE LET t == CHOOSE u \in ts : TRUE
                      IN Times(tasks[t].arg, m) + Sum(ts \ {t})
  IN Sum(flushes)

\* C38: no record accepted by queueMessage is passed to createMessagesBatch more
\* than once, and none is emitted more than once, also when flushes fail.
C38_AtMostOnce ==
  \A i \in DOMAIN messageProcessor.queued :
    /\ Passed(messageProcessor.queued[i]) <= 1
    /\ Times(messageProcessor.emitted, messageProcessor.queued[i]) <= 1

\* After a flush that failed, a later flush has persisted and emitted its batch.
C38_Witness ==
  /\ \E t \in DOMAIN tasks : tasks[t].kind = "createMessagesBatch" /\ tasks[t].st = "err"
  /\ \E t \in DOMAIN tasks :
       /\ tasks[t].kind = "createMessagesBatch" /\ tasks[t].st = "ok"
       /\ \A i \in DOMAIN tasks[t].arg :
            Times(messageProcessor.emitted, tasks[t].arg[i]) = 1

\* C39: createMessagesBatch is all-or-nothing: no record of a batch whose call was
\* rejected is in a message file.
C39_RejectedBatchLeavesNothing ==
  \A t \in DOMAIN tasks :
    (tasks[t].kind = "createMessagesBatch" /\ tasks[t].st = "err")
      => \A f \in MessageFiles : \A i \in DOMAIN disk[f].recs :
           disk[f].recs[i] \notin Elems(tasks[t].arg)

\* C40: for every file, activeReads is the number of physical reads of the file in
\* flight; it is 0 when none is in flight, also after reads that went through the
\* backoff of the throttle.
C40_ActiveReadsCounts ==
  \A f \in Files : activeReads[f] = Cardinality(Reading(f))

====
